---- MODULE Spec2Model ----
(***************************************************************************)
(* Model of tesla-bot: the ChargingCoordinator's automatic coordination    *)
(* loop and plan computation (services/charging-coordinator.js), the rate  *)
(* limited request queue of TeslaHttpClient (src/lib/http-client.js), one  *)
(* instance per API component, and the token handling of the API           *)
(* components (TeslaFleetAPI, TeslaEnergyAPI, VirtualKeyAPI, TeslaAuth).   *)
(***************************************************************************)
EXTENDS Integers, Sequences, FiniteSets, TLC

(* ---- bounds of the model ---- *)
MaxLoops == 3
MaxCycles == 2
MaxOps == 4
MaxCalls == 4
MaxTime == 100
TickMs == 25
MaxTokOps == 3
MaxIssued == 2
MaxClock == 90000
MaxVehicles == 3
MaxAutoCycles == 2
MaxExecItems == 3
MaxCmds == 2

(* ---- state ---- *)
VARIABLES isActive, loops, callLog,
          requestQueue, isProcessingQueue, workers, calls, dispatchLog, now, sys,
          tokens, authHeader, tokOps, clock, issued,
          planCall, plan, planPc,
          autoOpts, autoCycles, charging, cyclePlan,
          execPlan, execEnv, execPc, execPos, results, attempts,
          cmdApi, cmds, cmdQueue, energyQueue,
          coordinators, httpLog,
          reserveCall, reserveActions, reservePc, reserveSent,
          offPeakCall, offPeakTime, offPeakPc,
          timedLoop, timedCycles, timer, loopClock

loopVars == <<isActive, loops, callLog>>
dispVars == <<requestQueue, isProcessingQueue, workers, calls, dispatchLog, now, sys>>
tokVars == <<tokens, authHeader, tokOps, clock, issued>>
planVars == <<planCall, plan, planPc>>
autoVars == <<autoOpts, autoCycles, charging, cyclePlan>>
execVars == <<execPlan, execEnv, execPc, execPos, results, attempts>>
cmdVars == <<cmdApi, cmds, cmdQueue, energyQueue>>
routeVars == <<coordinators, httpLog>>
reserveVars == <<reserveCall, reserveActions, reservePc, reserveSent>>
offPeakVars == <<offPeakCall, offPeakTime, offPeakPc>>
timedVars == <<timedLoop, timedCycles, timer, loopClock>>
vars == <<isActive, loops, callLog,
          requestQueue, isProcessingQueue, workers, calls, dispatchLog, now, sys,
          tokens, authHeader, tokOps, clock, issued,
          planCall, plan, planPc,
          autoOpts, autoCycles, charging, cyclePlan,
          execPlan, execEnv, execPc, execPos, results, attempts,
          cmdApi, cmds, cmdQueue, energyQueue,
          coordinators, httpLog,
          reserveCall, reserveActions, reservePc, reserveSent,
          offPeakCall, offPeakTime, offPeakPc,
          timedLoop, timedCycles, timer, loopClock>>

LoopIds == DOMAIN loops

RunningPcs == {"planning", "executing"}

(* A loop is one coordinationLoop closure, created by one successful start. *)
(* pc: where its chain of cycles stands; epoch: number of successful starts *)
(* at the moment it last passed an isActive check; stopped: a stop          *)
(* succeeded after it was created; outcome: how its last cycle ended.       *)
NewLoop(autoExecute, epoch) ==
    [pc |-> "planning", autoExecute |-> autoExecute, cycles |-> 1,
     epoch |-> epoch, stopped |-> FALSE, outcome |-> "none"]

NStartsOK == Cardinality({i \in DOMAIN callLog :
                 callLog[i].op = "start" /\ callLog[i].result = "ok"})

LoopInit ==
    /\ isActive = FALSE
    /\ loops = <<>>
    /\ callLog = <<>>

(* startAutomaticCoordination: the check and the set of isActive and the   *)
(* first call of coordinationLoop (up to its first await) are synchronous. *)
StartGuardMissing == FALSE

StartGuardFails == isActive

StartAutomaticCoordination(autoExecute) ==
    /\ Len(callLog) < MaxOps
    /\ IF StartGuardFails
       THEN /\ callLog' = Append(callLog, [op |-> "start", result |-> "AlreadyActiveError"])
            /\ UNCHANGED <<isActive, loops>>
       ELSE /\ Len(loops) < MaxLoops
            /\ isActive' = TRUE
            /\ loops' = Append(loops, NewLoop(autoExecute, NStartsOK + 1))
            /\ callLog' = Append(callLog, [op |-> "start", result |-> "ok"])
    /\ UNCHANGED dispVars
    /\ UNCHANGED tokVars
    /\ UNCHANGED planVars
    /\ UNCHANGED autoVars
    /\ UNCHANGED execVars
    /\ UNCHANGED cmdVars
    /\ UNCHANGED routeVars
    /\ UNCHANGED reserveVars
    /\ UNCHANGED offPeakVars
    /\ UNCHANGED timedVars

(* stopAutomaticCoordination *)
StopGuardMissing == FALSE

StopGuardFails == ~isActive

StopAutomaticCoordination ==
    /\ Len(callLog) < MaxOps
    /\ IF StopGuardFails
       THEN /\ callLog' = Append(callLog, [op |-> "stop", result |-> "NotActiveError"])
            /\ UNCHANGED <<isActive, loops>>
       ELSE /\ isActive' = FALSE
            /\ loops' = [l \in LoopIds |-> [loops[l] EXCEPT !.stopped = TRUE]]
            /\ callLog' = Append(callLog, [op |-> "stop", result |-> "ok"])
    /\ UNCHANGED dispVars
    /\ UNCHANGED tokVars
    /\ UNCHANGED planVars
    /\ UNCHANGED autoVars
    /\ UNCHANGED execVars
    /\ UNCHANGED cmdVars
    /\ UNCHANGED routeVars
    /\ UNCHANGED reserveVars
    /\ UNCHANGED offPeakVars
    /\ UNCHANGED timedVars

AfterCycleNoCatch(l, outcome) ==
    IF isActive /\ outcome = "ok"
    THEN [loops[l] EXCEPT !.pc = "timer", !.outcome = outcome, !.epoch = NStartsOK]
    ELSE [loops[l] EXCEPT !.pc = "dead", !.outcome = outcome]

(* End of the try/catch of a cycle: re-arm the timer only if still active. *)
AfterCycle(l, outcome) ==
    IF isActive
    THEN [loops[l] EXCEPT !.pc = "timer", !.outcome = outcome, !.epoch = NStartsOK]
    ELSE [loops[l] EXCEPT !.pc = "dead", !.outcome = outcome]

(* await createOptimalChargingPlan(planOptions) returns or throws *)
PlanDone(l, ok) ==
    /\ loops[l].pc = "planning"
    /\ loops' = [loops EXCEPT ![l] =
                    IF ok /\ loops[l].autoExecute
                    THEN [loops[l] EXCEPT !.pc = "executing"]
                    ELSE AfterCycle(l, IF ok THEN "ok" ELSE "planError")]
    /\ UNCHANGED <<isActive, callLog>>
    /\ UNCHANGED dispVars
    /\ UNCHANGED tokVars
    /\ UNCHANGED planVars
    /\ UNCHANGED autoVars
    /\ UNCHANGED execVars
    /\ UNCHANGED cmdVars
    /\ UNCHANGED routeVars
    /\ UNCHANGED reserveVars
    /\ UNCHANGED offPeakVars
    /\ UNCHANGED timedVars

(* await executeChargingPlan(plan) returns or throws *)
ExecDone(l, ok) ==
    /\ loops[l].pc = "executing"
    /\ loops' = [loops EXCEPT ![l] = AfterCycle(l, IF ok THEN "ok" ELSE "execError")]
    /\ UNCHANGED <<isActive, callLog>>
    /\ UNCHANGED dispVars
    /\ UNCHANGED tokVars
    /\ UNCHANGED planVars
    /\ UNCHANGED autoVars
    /\ UNCHANGED execVars
    /\ UNCHANGED cmdVars
    /\ UNCHANGED routeVars
    /\ UNCHANGED reserveVars
    /\ UNCHANGED offPeakVars
    /\ UNCHANGED timedVars

(* setTimeout(coordinationLoop, ...) fires: coordinationLoop runs again *)
LoopTimerFire(l) ==
    /\ loops[l].pc = "timer"
    /\ IF ~isActive
       THEN loops' = [loops EXCEPT ![l].pc = "dead"]
       ELSE /\ loops[l].cycles < MaxCycles
            /\ loops' = [loops EXCEPT ![l].pc = "planning",
                                      ![l].cycles = @ + 1,
                                      ![l].epoch = NStartsOK]
    /\ UNCHANGED <<isActive, callLog>>
    /\ UNCHANGED dispVars
    /\ UNCHANGED tokVars
    /\ UNCHANGED planVars
    /\ UNCHANGED autoVars
    /\ UNCHANGED execVars
    /\ UNCHANGED cmdVars
    /\ UNCHANGED routeVars
    /\ UNCHANGED reserveVars
    /\ UNCHANGED offPeakVars
    /\ UNCHANGED timedVars

LoopNext ==
    \/ \E a \in BOOLEAN : StartAutomaticCoordination(a)
    \/ StopAutomaticCoordination
    \/ \E l \in LoopIds, ok \in BOOLEAN : PlanDone(l, ok)
    \/ \E l \in LoopIds, ok \in BOOLEAN : ExecDone(l, ok)
    \/ \E l \in LoopIds : LoopTimerFire(l)

(* ==================== TeslaHttpClient request queue ==================== *)
(* One TeslaHttpClient per API component of a coordinator. Time is in ms.  *)
Clients == {"vehicleAPI", "energyAPI"}

maxRequestsPerSecond == 20

requestInterval == 1000 \div maxRequestsPerSecond

CallIds == DOMAIN calls

DispInit ==
    /\ requestQueue = [d \in Clients |-> <<>>]
    /\ isProcessingQueue = [d \in Clients |-> FALSE]
    /\ workers = [d \in Clients |-> {}]
    /\ calls = <<>>
    /\ dispatchLog = <<>>
    /\ now = 0
    /\ sys = [pc |-> "idle", vehicles |-> 0, products |-> 0, status |-> 0]

(* The part of the state one client's processQueue reads and writes. *)
St(d) == [queue |-> requestQueue[d], processing |-> isProcessingQueue[d],
          workers |-> workers[d], log |-> dispatchLog]

(* behind, found: the call the client's worker was busy with at submission *)
(* and where that worker stood (0 and "idle" if the client had no worker); *)
(* cleared: removed from the queue by clearQueue.                          *)
CurrentWorker(d) ==
    IF workers[d] = {} THEN [pc |-> "idle", call |-> 0, at |-> 0]
    ELSE CHOOSE w \in workers[d] : TRUE

NewCall(d) == [client |-> d, outcome |-> "pending", settles |-> 0,
               cleared |-> FALSE, behind |-> CurrentWorker(d).call,
               found |-> CurrentWorker(d).pc]

QueuePop(q) == [item |-> q[Len(q)], rest |-> SubSeq(q, 1, Len(q) - 1)]

(* this.requestQueue.shift() *)
QueueShift(q) == [item |-> Head(q), rest |-> Tail(q)]

WorkerLoopKeepsFlag(d, st, others) ==
    IF Len(st.queue) > 0
    THEN LET sh == QueueShift(st.queue)
         IN [queue |-> sh.rest,
             processing |-> st.processing,
             workers |-> others \cup {[pc |-> "awaitResponse", call |-> sh.item, at |-> now]},
             log |-> Append(st.log, [call |-> sh.item, client |-> d, at |-> now])]
    ELSE [st EXCEPT !.workers = others]

(* The while loop of processQueue at its head, run by one worker; others   *)
(* are the other workers of the client. A dispatch starts at time now.     *)
WorkerLoop(d, st, others) ==
    IF Len(st.queue) > 0
    THEN LET sh == QueueShift(st.queue)
         IN [queue |-> sh.rest,
             processing |-> st.processing,
             workers |-> others \cup {[pc |-> "awaitResponse", call |-> sh.item, at |-> now]},
             log |-> Append(st.log, [call |-> sh.item, client |-> d, at |-> now])]
    ELSE [st EXCEPT !.processing = FALSE, !.workers = others]

ProcessQueueGuardNoFlag(processing, q) == Len(q) = 0

(* if (this.isProcessingQueue || this.requestQueue.length === 0) return;   *)
ProcessQueueGuard(processing, q) == processing \/ Len(q) = 0

ProcessQueue(d, st) ==
    IF ProcessQueueGuard(st.processing, st.queue)
    THEN st
    ELSE WorkerLoop(d, [st EXCEPT !.processing = TRUE], st.workers)

(* request(config): push, then processQueue() *)
RequestOn(d, st, c) == ProcessQueue(d, [st EXCEPT !.queue = Append(@, c)])

Put(d, st) ==
    /\ requestQueue' = [requestQueue EXCEPT ![d] = st.queue]
    /\ isProcessingQueue' = [isProcessingQueue EXCEPT ![d] = st.processing]
    /\ workers' = [workers EXCEPT ![d] = st.workers]
    /\ dispatchLog' = st.log

(* request / get / post / put / patch / delete on one client *)
Request(d) ==
    /\ Len(calls) < MaxCalls
    /\ calls' = Append(calls, NewCall(d))
    /\ Put(d, RequestOn(d, St(d), Len(calls) + 1))
    /\ UNCHANGED <<now, sys>>
    /\ UNCHANGED loopVars
    /\ UNCHANGED tokVars
    /\ UNCHANGED planVars
    /\ UNCHANGED autoVars
    /\ UNCHANGED execVars
    /\ UNCHANGED cmdVars
    /\ UNCHANGED routeVars
    /\ UNCHANGED reserveVars
    /\ UNCHANGED offPeakVars
    /\ UNCHANGED timedVars

QueueAfterResponseRetry(q, c, ok) == IF ok THEN q ELSE Append(q, c)

(* try { resolve(response) } catch (error) { reject(error) }: a failed call *)
(* is handed to its own reject and is not put back into the queue.          *)
QueueAfterResponse(q, c, ok) == q

(* await this.client(config) returns (ok) or throws: the call's handle is  *)
(* settled, then the worker waits requestInterval if calls are queued.     *)
Response(d, w, ok) ==
    /\ w \in workers[d]
    /\ w.pc = "awaitResponse"
    /\ now > w.at
    /\ calls' = [calls EXCEPT ![w.call].outcome = IF ok THEN "resolved" ELSE "rejected",
                              ![w.call].settles = @ + 1]
    /\ LET q == QueueAfterResponse(requestQueue[d], w.call, ok)
       IN IF Len(q) > 0
          THEN /\ workers' = [workers EXCEPT ![d] = (@ \ {w}) \cup
                                 {[pc |-> "awaitInterval", call |-> w.call,
                                   at |-> now + requestInterval]}]
               /\ requestQueue' = [requestQueue EXCEPT ![d] = q]
               /\ UNCHANGED <<isProcessingQueue, dispatchLog>>
          ELSE Put(d, WorkerLoop(d, [St(d) EXCEPT !.queue = q], workers[d] \ {w}))
    /\ UNCHANGED <<now, sys>>
    /\ UNCHANGED loopVars
    /\ UNCHANGED tokVars
    /\ UNCHANGED planVars
    /\ UNCHANGED autoVars
    /\ UNCHANGED execVars
    /\ UNCHANGED cmdVars
    /\ UNCHANGED routeVars
    /\ UNCHANGED reserveVars
    /\ UNCHANGED offPeakVars
    /\ UNCHANGED timedVars

(* the setTimeout(resolve, this.requestInterval) of the worker fires *)
IntervalElapsed(d, w) ==
    /\ w \in workers[d]
    /\ w.pc = "awaitInterval"
    /\ now >= w.at
    /\ Put(d, WorkerLoop(d, St(d), workers[d] \ {w}))
    /\ UNCHANGED <<calls, now, sys>>
    /\ UNCHANGED loopVars
    /\ UNCHANGED tokVars
    /\ UNCHANGED planVars
    /\ UNCHANGED autoVars
    /\ UNCHANGED execVars
    /\ UNCHANGED cmdVars
    /\ UNCHANGED routeVars
    /\ UNCHANGED reserveVars
    /\ UNCHANGED offPeakVars
    /\ UNCHANGED timedVars

(* clearQueue(): this.requestQueue = [] *)
ClearQueue(d) ==
    /\ calls' = [c \in CallIds |->
                    IF \E i \in DOMAIN requestQueue[d] : requestQueue[d][i] = c
                    THEN [calls[c] EXCEPT !.cleared = TRUE]
                    ELSE calls[c]]
    /\ requestQueue' = [requestQueue EXCEPT ![d] = <<>>]
    /\ UNCHANGED <<isProcessingQueue, workers, dispatchLog, now, sys>>
    /\ UNCHANGED loopVars
    /\ UNCHANGED tokVars
    /\ UNCHANGED planVars
    /\ UNCHANGED autoVars
    /\ UNCHANGED execVars
    /\ UNCHANGED cmdVars
    /\ UNCHANGED routeVars
    /\ UNCHANGED reserveVars
    /\ UNCHANGED offPeakVars
    /\ UNCHANGED timedVars

(* ChargingCoordinator.getSystemStatus: Promise.all of vehicleAPI.          *)
(* getVehicles() and energyAPI.getEnergyProducts(); each enqueues its read  *)
(* on its own component's client in the same turn of the event loop.        *)
GetSystemStatus ==
    /\ sys.pc = "idle"
    /\ Len(calls) + 2 <= MaxCalls
    /\ LET c1 == Len(calls) + 1
           c2 == Len(calls) + 2
           s1 == RequestOn("vehicleAPI", St("vehicleAPI"), c1)
           s2 == RequestOn("energyAPI", [St("energyAPI") EXCEPT !.log = s1.log], c2)
       IN /\ calls' = calls \o <<NewCall("vehicleAPI"), NewCall("energyAPI")>>
          /\ requestQueue' = [requestQueue EXCEPT !["vehicleAPI"] = s1.queue,
                                                  !["energyAPI"] = s2.queue]
          /\ isProcessingQueue' = [isProcessingQueue EXCEPT
                                      !["vehicleAPI"] = s1.processing,
                                      !["energyAPI"] = s2.processing]
          /\ workers' = [workers EXCEPT !["vehicleAPI"] = s1.workers,
                                        !["energyAPI"] = s2.workers]
          /\ dispatchLog' = s2.log
          /\ sys' = [pc |-> "awaitAll", vehicles |-> c1, products |-> c2, status |-> 0]
    /\ UNCHANGED now
    /\ UNCHANGED loopVars
    /\ UNCHANGED tokVars
    /\ UNCHANGED planVars
    /\ UNCHANGED autoVars
    /\ UNCHANGED execVars
    /\ UNCHANGED cmdVars
    /\ UNCHANGED routeVars
    /\ UNCHANGED reserveVars
    /\ UNCHANGED offPeakVars
    /\ UNCHANGED timedVars

(* Promise.all settles: on a rejection getSystemStatus throws; otherwise,   *)
(* if a battery product exists, energyAPI.getPowerwallStatus is requested.  *)
SystemStatusJoin(hasPowerwall) ==
    /\ sys.pc = "awaitAll"
    /\ LET a == calls[sys.vehicles].outcome
           b == calls[sys.products].outcome
       IN IF a = "rejected" \/ b = "rejected"
          THEN /\ sys' = [sys EXCEPT !.pc = "idle"]
               /\ UNCHANGED <<requestQueue, isProcessingQueue, workers, calls, dispatchLog>>
          ELSE /\ a = "resolved" /\ b = "resolved"
               /\ IF hasPowerwall
                  THEN /\ Len(calls) < MaxCalls
                       /\ calls' = Append(calls, NewCall("energyAPI"))
                       /\ Put("energyAPI", RequestOn("energyAPI", St("energyAPI"), Len(calls) + 1))
                       /\ sys' = [sys EXCEPT !.pc = "awaitStatus", !.status = Len(calls) + 1]
                  ELSE /\ sys' = [sys EXCEPT !.pc = "idle"]
                       /\ UNCHANGED <<requestQueue, isProcessingQueue, workers, calls, dispatchLog>>
    /\ UNCHANGED now
    /\ UNCHANGED loopVars
    /\ UNCHANGED tokVars
    /\ UNCHANGED planVars
    /\ UNCHANGED autoVars
    /\ UNCHANGED execVars
    /\ UNCHANGED cmdVars
    /\ UNCHANGED routeVars
    /\ UNCHANGED reserveVars
    /\ UNCHANGED offPeakVars
    /\ UNCHANGED timedVars

(* getPowerwallStatus returns or throws: getSystemStatus returns or throws *)
SystemStatusDone ==
    /\ sys.pc = "awaitStatus"
    /\ calls[sys.status].outcome # "pending"
    /\ sys' = [sys EXCEPT !.pc = "idle"]
    /\ UNCHANGED <<requestQueue, isProcessingQueue, workers, calls, dispatchLog, now>>
    /\ UNCHANGED loopVars
    /\ UNCHANGED tokVars
    /\ UNCHANGED planVars
    /\ UNCHANGED autoVars
    /\ UNCHANGED execVars
    /\ UNCHANGED cmdVars
    /\ UNCHANGED routeVars
    /\ UNCHANGED reserveVars
    /\ UNCHANGED offPeakVars
    /\ UNCHANGED timedVars

(* time passes *)
Tick ==
    /\ now + TickMs <= MaxTime
    /\ now' = now + TickMs
    /\ UNCHANGED <<requestQueue, isProcessingQueue, workers, calls, dispatchLog, sys>>
    /\ UNCHANGED loopVars
    /\ UNCHANGED tokVars
    /\ UNCHANGED planVars
    /\ UNCHANGED autoVars
    /\ UNCHANGED execVars
    /\ UNCHANGED cmdVars
    /\ UNCHANGED routeVars
    /\ UNCHANGED reserveVars
    /\ UNCHANGED offPeakVars
    /\ UNCHANGED timedVars

WorkerRecords == UNION {workers[d] : d \in Clients}

DispNext ==
    \/ \E d \in Clients : Request(d)
    \/ \E d \in Clients, w \in WorkerRecords, ok \in BOOLEAN : Response(d, w, ok)
    \/ \E d \in Clients, w \in WorkerRecords : IntervalElapsed(d, w)
    \/ \E d \in Clients : ClearQueue(d)
    \/ GetSystemStatus
    \/ \E p \in BOOLEAN : SystemStatusJoin(p)
    \/ SystemStatusDone
    \/ Tick

(* ---- the dispatcher under fair scheduling ---- *)
(* Every remote call terminates and every timer fires. Time passes only     *)
(* while a worker cannot go on without it, up to a horizon that leaves      *)
(* every call the time of its response and of one interval.                 *)
MaxLiveCalls == 3

LiveHorizon == MaxLiveCalls * (TickMs + requestInterval + TickMs)

WaitsForTime(w) ==
    \/ w.pc = "awaitResponse" /\ now <= w.at
    \/ w.pc = "awaitInterval" /\ now < w.at

LiveRequest(d) ==
    /\ Len(calls) < MaxLiveCalls
    /\ Request(d)

LiveTick ==
    /\ \E w \in WorkerRecords : WaitsForTime(w)
    /\ now + TickMs <= LiveHorizon
    /\ now' = now + TickMs
    /\ UNCHANGED <<requestQueue, isProcessingQueue, workers, calls, dispatchLog, sys>>
    /\ UNCHANGED loopVars
    /\ UNCHANGED tokVars
    /\ UNCHANGED planVars
    /\ UNCHANGED autoVars
    /\ UNCHANGED execVars
    /\ UNCHANGED cmdVars
    /\ UNCHANGED routeVars
    /\ UNCHANGED reserveVars
    /\ UNCHANGED offPeakVars
    /\ UNCHANGED timedVars

DispLiveNext ==
    \/ \E d \in Clients : LiveRequest(d)
    \/ \E d \in Clients, w \in WorkerRecords, ok \in BOOLEAN : Response(d, w, ok)
    \/ \E d \in Clients, w \in WorkerRecords : IntervalElapsed(d, w)
    \/ \E d \in Clients : ClearQueue(d)
    \/ LiveTick

DispFairness ==
    /\ \A d \in Clients :
           WF_vars(\E w \in WorkerRecords, ok \in BOOLEAN : Response(d, w, ok))
    /\ \A d \in Clients : WF_vars(\E w \in WorkerRecords : IntervalElapsed(d, w))
    /\ WF_vars(LiveTick)

(* ========================= token lifecycle ============================= *)
(* The API components that make remote calls. Each holds this.tokens and   *)
(* the Authorization header of its own client; TeslaFleetAPI and           *)
(* VirtualKeyAPI construct this.teslaAuth, TeslaEnergyAPI does not.        *)
(* Access and refresh tokens are numbers (0: absent), times are in ms.     *)
Comps == {"vehicleAPI", "energyAPI", "virtualKeyAPI"}

HasTeslaAuth(comp) == comp # "energyAPI"

bufferTime == 60 * 1000

ClockTick == 30000

ExpiryValues == {0, 60000, 120000}

ExpiresInValues == {30000, 120000}

NoTokens == [set |-> FALSE, access |-> 0, refresh |-> 0, expiresAt |-> 0]

TokInit ==
    /\ tokens = [comp \in Comps |-> NoTokens]
    /\ authHeader = [comp \in Comps |-> 0]
    /\ tokOps = <<>>
    /\ clock = 0
    /\ issued = 0

IsTokenExpiredDoubleBuffer(tokenData) ==
    \/ ~tokenData.set
    \/ tokenData.expiresAt = 0
    \/ clock + bufferTime > tokenData.expiresAt - bufferTime

(* TeslaAuth.isTokenExpired *)
IsTokenExpired(tokenData) ==
    \/ ~tokenData.set
    \/ tokenData.expiresAt = 0
    \/ clock > tokenData.expiresAt - bufferTime

NeedsRefreshIgnoringToken(comp) ==
    HasTeslaAuth(comp) /\ IsTokenExpired(tokens[comp])

(* the condition of the if in ensureValidToken of each component *)
NeedsRefresh(comp) ==
    IF comp = "energyAPI"
    THEN HasTeslaAuth(comp) /\ IsTokenExpired(tokens[comp])
    ELSE tokens[comp].refresh # 0 /\ IsTokenExpired(tokens[comp])

(* setTokens(tokens) of a component used on its own: store the tokens and  *)
(* set the Authorization header. A behaviour configures one component (or  *)
(* one coordinator) with the caller's tokens, whose access token is 1.     *)
SetTokens(comp, refresh, expiresAt) ==
    /\ \A other \in Comps : ~tokens[other].set
    /\ tokens' = [tokens EXCEPT ![comp] =
                     [set |-> TRUE, access |-> 1, refresh |-> refresh, expiresAt |-> expiresAt]]
    /\ authHeader' = [authHeader EXCEPT ![comp] = 1]
    /\ UNCHANGED <<tokOps, clock, issued>>
    /\ UNCHANGED loopVars
    /\ UNCHANGED dispVars
    /\ UNCHANGED planVars
    /\ UNCHANGED autoVars
    /\ UNCHANGED execVars
    /\ UNCHANGED cmdVars
    /\ UNCHANGED routeVars
    /\ UNCHANGED reserveVars
    /\ UNCHANGED offPeakVars
    /\ UNCHANGED timedVars

CoordinatorComps == {"vehicleAPI", "energyAPI"}

(* ChargingCoordinator.setTokens(tokens): vehicleAPI.setTokens(tokens),     *)
(* then energyAPI.setTokens(tokens), in one synchronous call.               *)
CoordinatorSetTokens(refresh, expiresAt) ==
    /\ \A other \in Comps : ~tokens[other].set
    /\ tokens' = [comp \in Comps |->
                     IF comp \in CoordinatorComps
                     THEN [set |-> TRUE, access |-> 1, refresh |-> refresh,
                           expiresAt |-> expiresAt]
                     ELSE tokens[comp]]
    /\ authHeader' = [comp \in Comps |->
                         IF comp \in CoordinatorComps THEN 1 ELSE authHeader[comp]]
    /\ UNCHANGED <<tokOps, clock, issued>>
    /\ UNCHANGED loopVars
    /\ UNCHANGED dispVars
    /\ UNCHANGED planVars
    /\ UNCHANGED autoVars
    /\ UNCHANGED execVars
    /\ UNCHANGED cmdVars
    /\ UNCHANGED routeVars
    /\ UNCHANGED reserveVars
    /\ UNCHANGED offPeakVars
    /\ UNCHANGED timedVars

(* An operation of a component (getVehicles, startCharging, ...) up to its  *)
(* first suspension: ensureValidToken throws without tokens, starts the     *)
(* refresh exchange, or returns, after which the call is enqueued.          *)
Invoke(comp) ==
    /\ Len(tokOps) < MaxTokOps
    /\ tokOps' = Append(tokOps,
          [comp |-> comp,
           pc |-> IF ~tokens[comp].set THEN "failed"
                  ELSE IF NeedsRefresh(comp) THEN "refreshing" ELSE "queued",
           forToken |-> IF tokens[comp].set /\ NeedsRefresh(comp)
                        THEN tokens[comp].access ELSE 0,
           captured |-> tokens[comp].refresh,
           sentWith |-> 0])
    /\ UNCHANGED <<tokens, authHeader, clock, issued>>
    /\ UNCHANGED loopVars
    /\ UNCHANGED dispVars
    /\ UNCHANGED planVars
    /\ UNCHANGED autoVars
    /\ UNCHANGED execVars
    /\ UNCHANGED cmdVars
    /\ UNCHANGED routeVars
    /\ UNCHANGED reserveVars
    /\ UNCHANGED offPeakVars
    /\ UNCHANGED timedVars

TokensAfterFailedRefreshCleared(comp) == NoTokens

(* this.tokens = await refreshAccessToken(...) when the exchange throws:   *)
(* the assignment never runs.                                              *)
TokensAfterFailedRefresh(comp) == tokens[comp]

HeaderKept(header, new) == header

(* this.httpClient.setAuthToken(this.tokens.access_token) after a refresh *)
HeaderAfterRefresh(header, new) == new.access

(* TeslaAuth.refreshAccessToken returns: the component stores the new      *)
(* credential and sets the header, then the operation enqueues its call.   *)
RefreshSucceeds(i, newRefresh, expiresIn) ==
    /\ tokOps[i].pc = "refreshing"
    /\ issued < MaxIssued
    /\ LET comp == tokOps[i].comp
           new == [set |-> TRUE,
                   access |-> 10 + issued,
                   refresh |-> IF newRefresh # 0 THEN newRefresh ELSE tokOps[i].captured,
                   expiresAt |-> clock + expiresIn]
       IN /\ tokens' = [tokens EXCEPT ![comp] = new]
          /\ authHeader' = [authHeader EXCEPT ![comp] = HeaderAfterRefresh(@, new)]
    /\ issued' = issued + 1
    /\ tokOps' = [tokOps EXCEPT ![i].pc = "queued"]
    /\ UNCHANGED clock
    /\ UNCHANGED loopVars
    /\ UNCHANGED dispVars
    /\ UNCHANGED planVars
    /\ UNCHANGED autoVars
    /\ UNCHANGED execVars
    /\ UNCHANGED cmdVars
    /\ UNCHANGED routeVars
    /\ UNCHANGED reserveVars
    /\ UNCHANGED offPeakVars
    /\ UNCHANGED timedVars

(* TeslaAuth.refreshAccessToken throws: ensureValidToken and the operation *)
(* throw before anything is enqueued.                                      *)
RefreshFails(i) ==
    /\ tokOps[i].pc = "refreshing"
    /\ tokens' = [tokens EXCEPT ![tokOps[i].comp] = TokensAfterFailedRefresh(tokOps[i].comp)]
    /\ tokOps' = [tokOps EXCEPT ![i].pc = "failed"]
    /\ UNCHANGED <<authHeader, clock, issued>>
    /\ UNCHANGED loopVars
    /\ UNCHANGED dispVars
    /\ UNCHANGED planVars
    /\ UNCHANGED autoVars
    /\ UNCHANGED execVars
    /\ UNCHANGED cmdVars
    /\ UNCHANGED routeVars
    /\ UNCHANGED reserveVars
    /\ UNCHANGED offPeakVars
    /\ UNCHANGED timedVars

(* The client dispatches the operation's call: axios merges the default    *)
(* Authorization header at that moment.                                    *)
DispatchCall(i) ==
    /\ tokOps[i].pc = "queued"
    /\ tokOps' = [tokOps EXCEPT ![i].pc = "sent", ![i].sentWith = authHeader[tokOps[i].comp]]
    /\ UNCHANGED <<tokens, authHeader, clock, issued>>
    /\ UNCHANGED loopVars
    /\ UNCHANGED dispVars
    /\ UNCHANGED planVars
    /\ UNCHANGED autoVars
    /\ UNCHANGED execVars
    /\ UNCHANGED cmdVars
    /\ UNCHANGED routeVars
    /\ UNCHANGED reserveVars
    /\ UNCHANGED offPeakVars
    /\ UNCHANGED timedVars

ClockAdvance ==
    /\ clock + ClockTick <= MaxClock
    /\ clock' = clock + ClockTick
    /\ UNCHANGED <<tokens, authHeader, tokOps, issued>>
    /\ UNCHANGED loopVars
    /\ UNCHANGED dispVars
    /\ UNCHANGED planVars
    /\ UNCHANGED autoVars
    /\ UNCHANGED execVars
    /\ UNCHANGED cmdVars
    /\ UNCHANGED routeVars
    /\ UNCHANGED reserveVars
    /\ UNCHANGED offPeakVars
    /\ UNCHANGED timedVars

TokNext ==
    \/ \E comp \in Comps, r \in {0, 1}, e \in ExpiryValues : SetTokens(comp, r, e)
    \/ \E r \in {0, 1}, e \in ExpiryValues : CoordinatorSetTokens(r, e)
    \/ \E comp \in Comps : Invoke(comp)
    \/ \E i \in DOMAIN tokOps, r \in {0, 2}, e \in ExpiresInValues : RefreshSucceeds(i, r, e)
    \/ \E i \in DOMAIN tokOps : RefreshFails(i)
    \/ \E i \in DOMAIN tokOps : DispatchCall(i)
    \/ ClockAdvance

(* ==================== createOptimalChargingPlan ======================== *)
(* The plan is a function of the options and of the system status and      *)
(* vehicle data the coordinator reads; one call is one step. Vehicle ids   *)
(* are the positions in systemStatus.vehicles; targetChargeLevels is left  *)
(* empty, so every target is the default.                                  *)

defaultTargetLevel == 80

preservePowerwallReserve == 20

homeLoad == 1000

Levels == {50, 60, 70, 80, 90}

PowerwallLevels == {18, 20, 50, 96}

SolarValues == {4000, 6001}

GridValues == {-500, 0}

MaxSimultaneousValues == {0, 1, 2}

(* solar and grid power read together: the site exports to the grid when   *)
(* solar production exceeds the home load by more than 3000 W.             *)
SiteFeeds ==
    {f \in SolarValues \X GridValues : (f[2] < 0) <=> (f[1] > homeLoad + 3000)}

(* a vehicle of systemStatus.vehicles with what getVehicleData answers *)
VehicleInputs ==
    {[state |-> "offline", fetch |-> "none", level |-> 0, plugged |-> FALSE],
     [state |-> "online", fetch |-> "fails", level |-> 0, plugged |-> FALSE],
     [state |-> "online", fetch |-> "noChargeState", level |-> 0, plugged |-> FALSE],
     [state |-> "online", fetch |-> "ok", level |-> 60, plugged |-> FALSE]}
    \cup [state : {"online"}, fetch : {"ok"}, level : Levels, plugged : {TRUE}]

NoPlan == [vehicles |-> <<>>, powerwallActions |-> <<>>, recommendations |-> <<>>]

NoCall ==
    [vehicles |-> <<>>, priorityVehicles |-> {}, maxSimultaneousCharging |-> 2,
     powerwallLevel |-> 0, solarProduction |-> 0, gridPower |-> 0]

PlanInit == planCall = NoCall /\ plan = NoPlan /\ planPc = "idle"

HighPowerwall(powerwallLevel) == powerwallLevel > preservePowerwallReserve + 30

ExcessSolar(solarProduction) == solarProduction > homeLoad + 3000

BelowReserveByMargin(powerwallLevel) == powerwallLevel < preservePowerwallReserve - 5

BelowReserve(powerwallLevel) == powerwallLevel < preservePowerwallReserve

DecisionSolarFirst(c) ==
    IF ExcessSolar(c.solarProduction)
    THEN [action |-> "start_charging", reason |-> "Excess solar production available"]
    ELSE IF HighPowerwall(c.powerwallLevel)
    THEN [action |-> "start_charging", reason |-> "High Powerwall level allows charging"]
    ELSE IF BelowReserve(c.powerwallLevel)
    THEN [action |-> "delay_charging", reason |-> "Preserve Powerwall reserve"]
    ELSE [action |-> "schedule_off_peak", reason |-> "Schedule for off-peak hours"]

(* the if / else if chain for a plugged in vehicle under its target *)
Decision(c) ==
    IF HighPowerwall(c.powerwallLevel)
    THEN [action |-> "start_charging", reason |-> "High Powerwall level allows charging"]
    ELSE IF ExcessSolar(c.solarProduction)
    THEN [action |-> "start_charging", reason |-> "Excess solar production available"]
    ELSE IF BelowReserve(c.powerwallLevel)
    THEN [action |-> "delay_charging", reason |-> "Preserve Powerwall reserve"]
    ELSE [action |-> "schedule_off_peak", reason |-> "Schedule for off-peak hours"]

WantsChargeAtTarget(chargingNeeded, isPluggedIn) == chargingNeeded >= 0 /\ isPluggedIn

(* the condition under which a vehicle gets an action other than none *)
WantsCharge(chargingNeeded, isPluggedIn) == chargingNeeded > 0 /\ isPluggedIn

(* vehiclePlan of one vehicle; decided records the action before admission *)
(* control, recommendedAction the one the plan returns.                    *)
VehiclePlan(c, id) ==
    LET currentLevel == c.vehicles[id].level
        targetLevel == defaultTargetLevel
        chargingNeeded == targetLevel - currentLevel
        isPluggedIn == c.vehicles[id].plugged
        d == IF WantsCharge(chargingNeeded, isPluggedIn)
             THEN Decision(c)
             ELSE [action |-> "none", reason |-> "none"]
    IN [vehicleId |-> id,
        currentCharge |-> currentLevel,
        targetCharge |-> targetLevel,
        chargingNeeded |-> chargingNeeded,
        isPluggedIn |-> isPluggedIn,
        priority |-> IF id \in c.priorityVehicles THEN "high" ELSE "normal",
        decided |-> d.action,
        recommendedAction |-> d.action,
        reason |-> d.reason]

RECURSIVE PlanVehiclesAbortOnFailure(_, _)
PlanVehiclesAbortOnFailure(c, id) ==
    IF id > Len(c.vehicles) THEN <<>>
    ELSE IF c.vehicles[id].state = "online" /\ c.vehicles[id].fetch = "fails" THEN <<>>
    ELSE (IF c.vehicles[id].state = "online" /\ c.vehicles[id].fetch = "ok"
          THEN <<VehiclePlan(c, id)>>
          ELSE <<>>) \o PlanVehiclesAbortOnFailure(c, id + 1)

RECURSIVE PlanVehicles(_, _)
(* the for loop over systemStatus.vehicles, from position id on *)
PlanVehicles(c, id) ==
    IF id > Len(c.vehicles) THEN <<>>
    ELSE (IF c.vehicles[id].state = "online" /\ c.vehicles[id].fetch = "ok"
          THEN <<VehiclePlan(c, id)>>
          ELSE <<>>) \o PlanVehicles(c, id + 1)

FirstOf(a, b) == a

(* Math.min *)
Min(a, b) == IF a < b THEN a ELSE b

(* the storage recommendation for a reserve floor given in the options *)
PowerwallActionsFor(powerwallLevel, reserve, gridPower) ==
    IF powerwallLevel < reserve /\ gridPower < 0
    THEN <<[action |-> "increase_backup_reserve",
            currentReserve |-> reserve,
            recommendedReserve |-> Min(reserve + 10, 100)]>>
    ELSE <<>>

PowerwallActions(c) ==
    PowerwallActionsFor(c.powerwallLevel, preservePowerwallReserve, c.gridPower)

Recommendations(c) ==
    IF c.solarProduction > homeLoad + 5000 /\ c.powerwallLevel > 95
    THEN <<[type |-> "energy_optimization", action |-> "prioritize_vehicle_charging"]>>
    ELSE <<>>

CompareIgnoringPriority(a, b) == b.chargingNeeded - a.chargingNeeded

(* the comparator given to sort: negative when a goes before b *)
Compare(a, b) ==
    IF a.priority = "high" /\ b.priority = "normal" THEN -1
    ELSE IF a.priority = "normal" /\ b.priority = "high" THEN 1
    ELSE b.chargingNeeded - a.chargingNeeded

RECURSIVE InsertSorted(_, _)
InsertSorted(x, s) ==
    IF s = <<>> THEN <<x>>
    ELSE IF Compare(x, Head(s)) < 0 THEN <<x>> \o s
    ELSE <<Head(s)>> \o InsertSorted(x, Tail(s))

RECURSIVE Sort(_)
(* Array.prototype.sort with the comparator: a stable sort *)
Sort(s) ==
    IF s = <<>> THEN <<>>
    ELSE InsertSorted(s[Len(s)], Sort(SubSeq(s, 1, Len(s) - 1)))

SliceOneLater(s, start) == SubSeq(s, start + 2, Len(s))

(* Array.prototype.slice(start), start >= 0 *)
Slice(s, start) == SubSeq(s, start + 1, Len(s))

IsStartCharging(v) == v.recommendedAction = "start_charging"

(* admission control: the vehicles beyond the first maxSimultaneousCharging *)
(* of the sorted candidates are set to queue_charging in the plan.          *)
AdmissionControl(entries, maxSimultaneousCharging) ==
    LET chargingVehicles == SelectSeq(entries, IsStartCharging)
        sortedByPriority == Sort(chargingVehicles)
        rest == Slice(sortedByPriority, maxSimultaneousCharging)
        queued == IF Len(chargingVehicles) > maxSimultaneousCharging
                  THEN {rest[k].vehicleId : k \in DOMAIN rest}
                  ELSE {}
    IN [k \in DOMAIN entries |->
           IF entries[k].vehicleId \in queued
           THEN [entries[k] EXCEPT
                    !.recommendedAction = "queue_charging",
                    !.reason = "Waiting for charging slot to become available"]
           ELSE entries[k]]

CreateOptimalChargingPlan(c) ==
    /\ planPc = "idle"
    /\ planCall' = c
    /\ plan' = [vehicles |-> AdmissionControl(PlanVehicles(c, 1), c.maxSimultaneousCharging),
                powerwallActions |-> PowerwallActions(c),
                recommendations |-> Recommendations(c)]
    /\ planPc' = "returned"
    /\ UNCHANGED loopVars
    /\ UNCHANGED dispVars
    /\ UNCHANGED tokVars
    /\ UNCHANGED autoVars
    /\ UNCHANGED execVars
    /\ UNCHANGED cmdVars
    /\ UNCHANGED routeVars
    /\ UNCHANGED reserveVars
    /\ UNCHANGED offPeakVars
    /\ UNCHANGED timedVars

(* getSystemStatus throws: the call throws 'Failed to create charging plan' *)
CreateOptimalChargingPlanFails ==
    /\ planPc = "idle"
    /\ planPc' = "threw"
    /\ UNCHANGED <<planCall, plan>>
    /\ UNCHANGED loopVars
    /\ UNCHANGED dispVars
    /\ UNCHANGED tokVars
    /\ UNCHANGED autoVars
    /\ UNCHANGED execVars
    /\ UNCHANGED cmdVars
    /\ UNCHANGED routeVars
    /\ UNCHANGED reserveVars
    /\ UNCHANGED offPeakVars
    /\ UNCHANGED timedVars

(* the caller drops the plan; the next call starts from nothing *)
PlanDropped ==
    /\ planPc \in {"returned", "threw"}
    /\ planCall' = NoCall
    /\ plan' = NoPlan
    /\ planPc' = "idle"
    /\ UNCHANGED loopVars
    /\ UNCHANGED dispVars
    /\ UNCHANGED tokVars
    /\ UNCHANGED autoVars
    /\ UNCHANGED execVars
    /\ UNCHANGED cmdVars
    /\ UNCHANGED routeVars
    /\ UNCHANGED reserveVars
    /\ UNCHANGED offPeakVars
    /\ UNCHANGED timedVars

(* the numbers of vehicles a caller can have now: no call while a plan is held *)
VehicleCounts == IF planPc = "idle" THEN 0..MaxVehicles ELSE {}

PlanNext ==
    \/ \E n \in VehicleCounts :
          \E vs \in [1..n -> VehicleInputs], pr \in SUBSET (1..n),
             m \in MaxSimultaneousValues, pw \in PowerwallLevels,
             f \in SiteFeeds :
              CreateOptimalChargingPlan(
                  [vehicles |-> vs, priorityVehicles |-> pr,
                   maxSimultaneousCharging |-> m, powerwallLevel |-> pw,
                   solarProduction |-> f[1], gridPower |-> f[2]])
    \/ CreateOptimalChargingPlanFails
    \/ PlanDropped

(* ============ auto-executing loop: plan, execute, plan, ... ============ *)
(* One loop started with autoExecute: each cycle reads the vehicles, makes  *)
(* a plan with the loop's planOptions and executes it. charging is the set  *)
(* of vehicles sent a start command and not since sent a stop command.      *)

AutoVehicleIds == 1..MaxVehicles

AutoLevels == {60, 70}

AutoPowerwallLevels == {18, 96}

NoAutoOpts == [started |-> FALSE, priorityVehicles |-> {}, maxSimultaneousCharging |-> 2]

AutoInit ==
    /\ autoOpts = NoAutoOpts
    /\ autoCycles = 0
    /\ charging = {}
    /\ cyclePlan = <<>>

(* startAutomaticCoordination({autoExecute: true, ...planOptions}) *)
AutoStart(priorityVehicles, maxSimultaneousCharging) ==
    /\ ~autoOpts.started
    /\ autoOpts' = [started |-> TRUE, priorityVehicles |-> priorityVehicles,
                    maxSimultaneousCharging |-> maxSimultaneousCharging]
    /\ UNCHANGED <<autoCycles, charging, cyclePlan>>
    /\ UNCHANGED loopVars
    /\ UNCHANGED dispVars
    /\ UNCHANGED tokVars
    /\ UNCHANGED planVars
    /\ UNCHANGED execVars
    /\ UNCHANGED cmdVars
    /\ UNCHANGED routeVars
    /\ UNCHANGED reserveVars
    /\ UNCHANGED offPeakVars
    /\ UNCHANGED timedVars

(* the call createOptimalChargingPlan(planOptions) of a cycle reads *)
CycleCall(levels, powerwallLevel) ==
    [vehicles |-> [id \in AutoVehicleIds |->
                      [state |-> "online", fetch |-> "ok",
                       level |-> levels[id], plugged |-> TRUE]],
     priorityVehicles |-> autoOpts.priorityVehicles,
     maxSimultaneousCharging |-> autoOpts.maxSimultaneousCharging,
     powerwallLevel |-> powerwallLevel, solarProduction |-> 0, gridPower |-> 0]

(* the command executeChargingPlan sends for one entry of the plan *)
ChargingAfter(ch, v) ==
    IF v.recommendedAction = "start_charging" THEN ch \cup {v.vehicleId}
    ELSE IF v.recommendedAction = "delay_charging" THEN ch \ {v.vehicleId}
    ELSE ch

RECURSIVE ChargingAfterPlan(_, _)
(* the for loop of executeChargingPlan over plan.vehicles *)
ChargingAfterPlan(ch, entries) ==
    IF entries = <<>> THEN ch
    ELSE ChargingAfterPlan(ChargingAfter(ch, Head(entries)), Tail(entries))

(* one cycle of coordinationLoop with autoExecute *)
AutoCycle(levels, powerwallLevel) ==
    /\ autoOpts.started
    /\ autoCycles < MaxAutoCycles
    /\ LET c == CycleCall(levels, powerwallLevel)
           entries == AdmissionControl(PlanVehicles(c, 1), c.maxSimultaneousCharging)
       IN /\ cyclePlan' = entries
          /\ charging' = ChargingAfterPlan(charging, entries)
    /\ autoCycles' = autoCycles + 1
    /\ UNCHANGED autoOpts
    /\ UNCHANGED loopVars
    /\ UNCHANGED dispVars
    /\ UNCHANGED tokVars
    /\ UNCHANGED planVars
    /\ UNCHANGED execVars
    /\ UNCHANGED cmdVars
    /\ UNCHANGED routeVars
    /\ UNCHANGED reserveVars
    /\ UNCHANGED offPeakVars
    /\ UNCHANGED timedVars

AutoNext ==
    \/ \E pr \in SUBSET AutoVehicleIds, m \in {1, 2} : AutoStart(pr, m)
    \/ \E levels \in [AutoVehicleIds -> AutoLevels], pw \in AutoPowerwallLevels :
           AutoCycle(levels, pw)

(* ======================= executeChargingPlan =========================== *)
(* One call, item by item: every item is one iteration of a for loop with   *)
(* its awaits. Items 1..Len(plan.vehicles) are the vehicle entries, the     *)
(* following ones the powerwallActions. attempts records the API methods    *)
(* the call invokes, and whether the remote call was dispatched; item is    *)
(* the position of the plan item a result or an attempt belongs to.         *)

ExecActions ==
    {"none", "start_charging", "delay_charging", "schedule_off_peak", "queue_charging"}

ExecPowerwallActions ==
    {<<>>, <<[action |-> "increase_backup_reserve", recommendedReserve |-> 30]>>}

NoResults == [executed |-> <<>>, failed |-> <<>>, skipped |-> <<>>]

ExecInit ==
    /\ execPlan = NoPlan
    /\ execEnv = [hasKey |-> TRUE]
    /\ execPc = "idle"
    /\ execPos = 0
    /\ results = NoResults
    /\ attempts = <<>>

(* the commands built by tvcp.createTVCPRequest *)
SignedCommands == {"charging_start", "charging_stop", "set_charging_amps", "set_charge_limit"}

SignGuardMissing(hasKey) == FALSE

(* generateSignedCommand: if (!this.privateKey) throw *)
SignGuardFails(hasKey) == ~hasKey

(* A command method of TeslaFleetAPI: ensureValidToken (outside the try),   *)
(* then createTVCPRequest for a signed command, then httpClient.post.       *)
CommandAttempt(method, hasKey, tokenOk, remoteOk) ==
    IF ~tokenOk THEN [dispatched |-> FALSE, error |-> "refresh"]
    ELSE IF method \in SignedCommands /\ SignGuardFails(hasKey)
    THEN [dispatched |-> FALSE, error |-> "signing"]
    ELSE [dispatched |-> TRUE, error |-> IF remoteOk THEN "none" ELSE "remote"]

MethodForStartingQueued(action) ==
    CASE action \in {"start_charging", "queue_charging"} -> "charging_start"
      [] action = "delay_charging" -> "charging_stop"
      [] action = "schedule_off_peak" -> "scheduled_charging"
      [] OTHER -> "none"

(* the switch on recommendedAction: the API method of each case *)
MethodFor(action) ==
    CASE action = "start_charging" -> "charging_start"
      [] action = "delay_charging" -> "charging_stop"
      [] action = "schedule_off_peak" -> "scheduled_charging"
      [] OTHER -> "none"

ResultsAfterErrorDropped(res, e) == res

(* the catch of an item: results.failed.push *)
ResultsAfterError(res, e) == [res EXCEPT !.failed = Append(@, e)]

NextItemAfterErrorAborts(i) == Len(execPlan.vehicles) + Len(execPlan.powerwallActions) + 1

(* after the catch the for loop goes on with the next item *)
NextItemAfterError(i) == i + 1

(* route and loop call executeChargingPlan(plan) on a coordinator *)
ExecuteChargingPlan(p, hasKey) ==
    /\ execPc = "idle"
    /\ execPlan' = p
    /\ execEnv' = [hasKey |-> hasKey]
    /\ execPc' = "running"
    /\ execPos' = 1
    /\ results' = NoResults
    /\ attempts' = <<>>
    /\ UNCHANGED loopVars
    /\ UNCHANGED dispVars
    /\ UNCHANGED tokVars
    /\ UNCHANGED planVars
    /\ UNCHANGED autoVars
    /\ UNCHANGED cmdVars
    /\ UNCHANGED routeVars
    /\ UNCHANGED reserveVars
    /\ UNCHANGED offPeakVars
    /\ UNCHANGED timedVars

(* one iteration of the for loop over plan.vehicles *)
ExecVehicleItem(tokenOk, remoteOk) ==
    /\ execPc = "running"
    /\ execPos <= Len(execPlan.vehicles)
    /\ LET i == execPos
           v == execPlan.vehicles[i]
           method == MethodFor(v.recommendedAction)
           a == CommandAttempt(method, execEnv.hasKey, tokenOk, remoteOk)
           e == [item |-> i, vehicleId |-> v.vehicleId, action |-> v.recommendedAction]
       IN IF method = "none"
          THEN /\ results' = [results EXCEPT !.skipped = Append(@,
                      [e EXCEPT !.action = IF v.recommendedAction = "queue_charging"
                                           THEN "queue_charging" ELSE "none"])]
               /\ execPos' = i + 1
               /\ UNCHANGED attempts
          ELSE /\ attempts' = Append(attempts,
                      [item |-> i, method |-> method,
                       dispatched |-> a.dispatched, error |-> a.error])
               /\ results' = IF a.error = "none"
                             THEN [results EXCEPT !.executed = Append(@, e)]
                             ELSE ResultsAfterError(results, e)
               /\ execPos' = IF a.error = "none" THEN i + 1 ELSE NextItemAfterError(i)
    /\ UNCHANGED <<execPlan, execEnv, execPc>>
    /\ UNCHANGED loopVars
    /\ UNCHANGED dispVars
    /\ UNCHANGED tokVars
    /\ UNCHANGED planVars
    /\ UNCHANGED autoVars
    /\ UNCHANGED cmdVars
    /\ UNCHANGED routeVars
    /\ UNCHANGED reserveVars
    /\ UNCHANGED offPeakVars
    /\ UNCHANGED timedVars

(* one iteration of the for loop over plan.powerwallActions: the site id    *)
(* comes from getEnergyProducts()[0], then setBackupReserve (range 0..100). *)
ExecPowerwallItem(productsOk, reserveOk) ==
    /\ execPc = "running"
    /\ execPos > Len(execPlan.vehicles)
    /\ execPos <= Len(execPlan.vehicles) + Len(execPlan.powerwallActions)
    /\ LET i == execPos
           pa == execPlan.powerwallActions[i - Len(execPlan.vehicles)]
           e == [item |-> i, vehicleId |-> 0, action |-> pa.action]
           inRange == pa.recommendedReserve >= 0 /\ pa.recommendedReserve <= 100
           read == [item |-> i, method |-> "getEnergyProducts", dispatched |-> TRUE,
                    error |-> IF productsOk THEN "none" ELSE "remote"]
           write == [item |-> i, method |-> "setBackupReserve", dispatched |-> inRange,
                     error |-> IF ~inRange THEN "range"
                               ELSE IF reserveOk THEN "none" ELSE "remote"]
       IN IF pa.action = "increase_backup_reserve"
          THEN /\ attempts' = IF productsOk THEN attempts \o <<read, write>>
                              ELSE Append(attempts, read)
               /\ results' = IF productsOk /\ write.error = "none"
                             THEN [results EXCEPT !.executed = Append(@, e)]
                             ELSE ResultsAfterError(results, e)
               /\ execPos' = IF productsOk /\ write.error = "none"
                             THEN i + 1 ELSE NextItemAfterError(i)
          ELSE /\ execPos' = i + 1
               /\ UNCHANGED <<results, attempts>>
    /\ UNCHANGED <<execPlan, execEnv, execPc>>
    /\ UNCHANGED loopVars
    /\ UNCHANGED dispVars
    /\ UNCHANGED tokVars
    /\ UNCHANGED planVars
    /\ UNCHANGED autoVars
    /\ UNCHANGED cmdVars
    /\ UNCHANGED routeVars
    /\ UNCHANGED reserveVars
    /\ UNCHANGED offPeakVars
    /\ UNCHANGED timedVars

(* return results *)
ExecReturn ==
    /\ execPc = "running"
    /\ execPos > Len(execPlan.vehicles) + Len(execPlan.powerwallActions)
    /\ execPc' = "returned"
    /\ UNCHANGED <<execPlan, execEnv, execPos, results, attempts>>
    /\ UNCHANGED loopVars
    /\ UNCHANGED dispVars
    /\ UNCHANGED tokVars
    /\ UNCHANGED planVars
    /\ UNCHANGED autoVars
    /\ UNCHANGED cmdVars
    /\ UNCHANGED routeVars
    /\ UNCHANGED reserveVars
    /\ UNCHANGED offPeakVars
    /\ UNCHANGED timedVars

(* the caller is done with the results; the next call starts from nothing *)
ExecDropped ==
    /\ execPc = "returned"
    /\ execPlan' = NoPlan
    /\ execEnv' = [hasKey |-> TRUE]
    /\ execPc' = "idle"
    /\ execPos' = 0
    /\ results' = NoResults
    /\ attempts' = <<>>
    /\ UNCHANGED loopVars
    /\ UNCHANGED dispVars
    /\ UNCHANGED tokVars
    /\ UNCHANGED planVars
    /\ UNCHANGED autoVars
    /\ UNCHANGED cmdVars
    /\ UNCHANGED routeVars
    /\ UNCHANGED reserveVars
    /\ UNCHANGED offPeakVars
    /\ UNCHANGED timedVars

(* the numbers of vehicle entries of a plan passed now: none while a call runs *)
ExecItemCounts == IF execPc = "idle" THEN 0..MaxExecItems ELSE {}

ExecNext ==
    \/ \E n \in ExecItemCounts :
          \E acts \in [1..n -> ExecActions], pas \in ExecPowerwallActions, hasKey \in BOOLEAN :
              ExecuteChargingPlan(
                  [vehicles |-> [i \in 1..n |-> [vehicleId |-> i, recommendedAction |-> acts[i]]],
                   powerwallActions |-> pas,
                   recommendations |-> <<>>],
                  hasKey)
    \/ \E tokenOk, remoteOk \in BOOLEAN : ExecVehicleItem(tokenOk, remoteOk)
    \/ \E productsOk, reserveOk \in BOOLEAN : ExecPowerwallItem(productsOk, reserveOk)
    \/ ExecReturn
    \/ ExecDropped

(* ================== TeslaFleetAPI vehicle commands ===================== *)
(* One TeslaFleetAPI with tokens set. cmds records the command methods      *)
(* called, cmdQueue the requests in its client's queue. A command runs      *)
(* from its call to the enqueueing of its request in one step; enqueued     *)
(* records that its request was put in the queue.                           *)

CmdVehicleIds == {1, 2}

CmdNonces == {1, 2}

(* the commands and their argument: amps, percent, or 0 where there is none *)
CmdCalls ==
    [method : {"charging_start", "charging_stop", "scheduled_charging"}, arg : {0}]
    \cup [method : {"set_charging_amps"}, arg : {4, 5, 48, 49}]
    \cup [method : {"set_charge_limit"}, arg : {49, 50, 100, 101}]

CmdInit ==
    /\ cmdApi = [constructed |-> FALSE, hasKey |-> FALSE]
    /\ cmds = <<>>
    /\ cmdQueue = <<>>
    /\ energyQueue = <<>>

(* new TeslaFleetAPI(): teslaAuth.loadPrivateKey() gives the key or null *)
ConstructFleetAPI(hasKey) ==
    /\ ~cmdApi.constructed
    /\ cmdApi' = [constructed |-> TRUE, hasKey |-> hasKey]
    /\ UNCHANGED <<cmds, cmdQueue, energyQueue>>
    /\ UNCHANGED loopVars
    /\ UNCHANGED dispVars
    /\ UNCHANGED tokVars
    /\ UNCHANGED planVars
    /\ UNCHANGED autoVars
    /\ UNCHANGED execVars
    /\ UNCHANGED routeVars
    /\ UNCHANGED reserveVars
    /\ UNCHANGED offPeakVars
    /\ UNCHANGED timedVars

ArgAlwaysInRange(call) == TRUE

(* the range checks of setChargingAmps, setChargeLimit and setBackupReserve *)
ArgInRange(call) ==
    CASE call.method = "set_charging_amps" -> ~(call.arg < 5 \/ call.arg > 48)
      [] call.method = "set_charge_limit" -> ~(call.arg < 50 \/ call.arg > 100)
      [] call.method = "set_backup_reserve" -> ~(call.arg < 0 \/ call.arg > 100)
      [] OTHER -> TRUE

(* the parameters object a command passes to createTVCPRequest *)
Parameters(call) ==
    CASE call.method = "set_charging_amps" -> [charging_amps |-> call.arg]
      [] call.method = "set_charge_limit" -> [percent |-> call.arg]
      [] OTHER -> <<>>

(* generateSignedCommand: the payload that is serialised and signed *)
CommandPayload(call, vehicleId, timestamp, nonce) ==
    [command |-> call.method,
     vehicle_id |-> vehicleId,
     parameters |-> Parameters(call),
     timestamp |-> timestamp,
     nonce |-> nonce,
     domain |-> "https://tesla-bot.vercel.app"]

(* crypto.sign over JSON.stringify(payload): determined by the payload *)
Signature(payload) == [signed |-> payload]

(* createTVCPRequest: the request body *)
TVCPRequest(call, vehicleId, timestamp, nonce) ==
    LET signedCommand == [payload |-> CommandPayload(call, vehicleId, timestamp, nonce),
                          signature |-> Signature(CommandPayload(call, vehicleId, timestamp, nonce)),
                          algorithm |-> "RS256"]
    IN [command |-> signedCommand.payload.command,
        parameters |-> signedCommand.payload.parameters,
        domain |-> "https://tesla-bot.vercel.app",
        timestamp |-> signedCommand.payload.timestamp,
        nonce |-> signedCommand.payload.nonce,
        signature |-> signedCommand.signature,
        algorithm |-> signedCommand.algorithm]

(* scheduleCharging posts an unsigned body *)
PlainRequest(call) == [enable |-> TRUE, time |-> call.arg]

(* how a command method ends before its request is awaited *)
CommandError(call, tokenOk) ==
    IF ~tokenOk THEN "refresh"
    ELSE IF ~ArgInRange(call) THEN "range"
    ELSE IF call.method \in SignedCommands /\ SignGuardFails(cmdApi.hasKey) THEN "signing"
    ELSE "none"

(* startCharging, stopCharging, setChargingAmps, setChargeLimit,             *)
(* scheduleCharging up to httpClient.post                                   *)
Command(call, vehicleId, tokenOk, nonce) ==
    /\ cmdApi.constructed
    /\ Len(cmds) < MaxCmds
    /\ LET error == CommandError(call, tokenOk)
           timestamp == 100 + Len(cmds)
           body == IF error # "none" THEN <<>>
                   ELSE IF call.method \in SignedCommands
                   THEN TVCPRequest(call, vehicleId, timestamp, nonce)
                   ELSE PlainRequest(call)
       IN /\ cmds' = Append(cmds,
                 [method |-> call.method, vehicleId |-> vehicleId, arg |-> call.arg,
                  pc |-> IF error = "none" THEN "queued" ELSE "failed",
                  error |-> error, enqueued |-> error = "none", body |-> body])
          /\ cmdQueue' = IF error = "none" THEN Append(cmdQueue, Len(cmds) + 1) ELSE cmdQueue
    /\ UNCHANGED <<cmdApi, energyQueue>>
    /\ UNCHANGED loopVars
    /\ UNCHANGED dispVars
    /\ UNCHANGED tokVars
    /\ UNCHANGED planVars
    /\ UNCHANGED autoVars
    /\ UNCHANGED execVars
    /\ UNCHANGED routeVars
    /\ UNCHANGED reserveVars
    /\ UNCHANGED offPeakVars
    /\ UNCHANGED timedVars

(* the client's worker sends the first request of the queue; the remote     *)
(* end answers or fails, and the method returns or rethrows.                *)
CommandResponse(ok) ==
    /\ cmdQueue # <<>>
    /\ cmds' = [cmds EXCEPT ![Head(cmdQueue)].pc = IF ok THEN "done" ELSE "failed",
                            ![Head(cmdQueue)].error = IF ok THEN "none" ELSE "remote"]
    /\ cmdQueue' = Tail(cmdQueue)
    /\ UNCHANGED <<cmdApi, energyQueue>>
    /\ UNCHANGED loopVars
    /\ UNCHANGED dispVars
    /\ UNCHANGED tokVars
    /\ UNCHANGED planVars
    /\ UNCHANGED autoVars
    /\ UNCHANGED execVars
    /\ UNCHANGED routeVars
    /\ UNCHANGED reserveVars
    /\ UNCHANGED offPeakVars
    /\ UNCHANGED timedVars

BackupReservePercents == {-1, 0, 100, 101}

(* TeslaEnergyAPI.setBackupReserve up to httpClient.post: ensureValidToken, *)
(* the range check, then the request enters the energy client's queue.      *)
SetBackupReserve(siteId, backupReservePercent, tokenOk) ==
    /\ Len(cmds) < MaxCmds
    /\ LET call == [method |-> "set_backup_reserve", arg |-> backupReservePercent]
           error == CommandError(call, tokenOk)
       IN /\ cmds' = Append(cmds,
                 [method |-> call.method, vehicleId |-> siteId, arg |-> call.arg,
                  pc |-> IF error = "none" THEN "queued" ELSE "failed",
                  error |-> error, enqueued |-> error = "none",
                  body |-> IF error = "none"
                           THEN [backup_reserve_percent |-> backupReservePercent]
                           ELSE <<>>])
          /\ energyQueue' = IF error = "none" THEN Append(energyQueue, Len(cmds) + 1)
                            ELSE energyQueue
    /\ UNCHANGED <<cmdApi, cmdQueue>>
    /\ UNCHANGED loopVars
    /\ UNCHANGED dispVars
    /\ UNCHANGED tokVars
    /\ UNCHANGED planVars
    /\ UNCHANGED autoVars
    /\ UNCHANGED execVars
    /\ UNCHANGED routeVars
    /\ UNCHANGED reserveVars
    /\ UNCHANGED offPeakVars
    /\ UNCHANGED timedVars

(* the energy client's worker sends the first request of its queue *)
BackupReserveResponse(ok) ==
    /\ energyQueue # <<>>
    /\ cmds' = [cmds EXCEPT ![Head(energyQueue)].pc = IF ok THEN "done" ELSE "failed",
                            ![Head(energyQueue)].error = IF ok THEN "none" ELSE "remote"]
    /\ energyQueue' = Tail(energyQueue)
    /\ UNCHANGED <<cmdApi, cmdQueue>>
    /\ UNCHANGED loopVars
    /\ UNCHANGED dispVars
    /\ UNCHANGED tokVars
    /\ UNCHANGED planVars
    /\ UNCHANGED autoVars
    /\ UNCHANGED execVars
    /\ UNCHANGED routeVars
    /\ UNCHANGED reserveVars
    /\ UNCHANGED offPeakVars
    /\ UNCHANGED timedVars

CmdNext ==
    \/ \E hasKey \in BOOLEAN : ConstructFleetAPI(hasKey)
    \/ \E call \in CmdCalls, vehicleId \in CmdVehicleIds, tokenOk \in BOOLEAN,
          nonce \in CmdNonces : Command(call, vehicleId, tokenOk, nonce)
    \/ \E ok \in BOOLEAN : CommandResponse(ok)
    \/ \E percent \in BackupReservePercents, tokenOk \in BOOLEAN :
          SetBackupReserve(1, percent, tokenOk)
    \/ \E ok \in BOOLEAN : BackupReserveResponse(ok)

(* ================= HTTP routes of automatic coordination ================ *)
(* Each request handler constructs its own ChargingCoordinator.             *)
(* coordinators[i] is the coordinator constructed by request i of httpLog.  *)
MaxRequests == 3

MaxRouteCycles == 2

RouteInit ==
    /\ coordinators = <<>>
    /\ httpLog = <<>>

(* new ChargingCoordinator() *)
NewChargingCoordinator == [isActive |-> FALSE, pc |-> "none", cycles |-> 0]

RouteResponse(route, status) == [route |-> route, status |-> status]

(* POST /charging/auto/start: startAutomaticCoordination on a coordinator  *)
(* constructed for this request; its first cycle begins synchronously.     *)
PostAutoStart ==
    /\ Len(httpLog) < MaxRequests
    /\ LET coordinator == NewChargingCoordinator
       IN  IF coordinator.isActive
           THEN /\ coordinators' = Append(coordinators, coordinator)
                /\ httpLog' = Append(httpLog, RouteResponse("auto/start", 500))
           ELSE /\ coordinators' = Append(coordinators,
                       [coordinator EXCEPT !.isActive = TRUE, !.pc = "running",
                                           !.cycles = 1])
                /\ httpLog' = Append(httpLog, RouteResponse("auto/start", 200))
    /\ UNCHANGED loopVars
    /\ UNCHANGED dispVars
    /\ UNCHANGED tokVars
    /\ UNCHANGED planVars
    /\ UNCHANGED autoVars
    /\ UNCHANGED execVars
    /\ UNCHANGED cmdVars
    /\ UNCHANGED reserveVars
    /\ UNCHANGED offPeakVars
    /\ UNCHANGED timedVars

(* POST /charging/auto/stop: stopAutomaticCoordination on a coordinator    *)
(* constructed for this request; a throw is answered with status 500.      *)
PostAutoStop ==
    /\ Len(httpLog) < MaxRequests
    /\ LET coordinator == NewChargingCoordinator
       IN  IF ~coordinator.isActive
           THEN /\ coordinators' = Append(coordinators, coordinator)
                /\ httpLog' = Append(httpLog, RouteResponse("auto/stop", 500))
           ELSE /\ coordinators' = Append(coordinators,
                       [coordinator EXCEPT !.isActive = FALSE])
                /\ httpLog' = Append(httpLog, RouteResponse("auto/stop", 200))
    /\ UNCHANGED loopVars
    /\ UNCHANGED dispVars
    /\ UNCHANGED tokVars
    /\ UNCHANGED planVars
    /\ UNCHANGED autoVars
    /\ UNCHANGED execVars
    /\ UNCHANGED cmdVars
    /\ UNCHANGED reserveVars
    /\ UNCHANGED offPeakVars
    /\ UNCHANGED timedVars

(* The try/catch of a cycle of coordinator i ends: re-arm if still active. *)
RouteCycleDone(i, ok) ==
    /\ coordinators[i].pc = "running"
    /\ coordinators' = [coordinators EXCEPT ![i].pc =
                           IF coordinators[i].isActive THEN "timer" ELSE "dead"]
    /\ UNCHANGED httpLog
    /\ UNCHANGED loopVars
    /\ UNCHANGED dispVars
    /\ UNCHANGED tokVars
    /\ UNCHANGED planVars
    /\ UNCHANGED autoVars
    /\ UNCHANGED execVars
    /\ UNCHANGED cmdVars
    /\ UNCHANGED reserveVars
    /\ UNCHANGED offPeakVars
    /\ UNCHANGED timedVars

(* The timer of coordinator i fires: coordinationLoop runs again. *)
RouteTimerFire(i) ==
    /\ coordinators[i].pc = "timer"
    /\ IF ~coordinators[i].isActive
       THEN coordinators' = [coordinators EXCEPT ![i].pc = "dead"]
       ELSE /\ coordinators[i].cycles < MaxRouteCycles
            /\ coordinators' = [coordinators EXCEPT ![i].pc = "running",
                                                    ![i].cycles = @ + 1]
    /\ UNCHANGED httpLog
    /\ UNCHANGED loopVars
    /\ UNCHANGED dispVars
    /\ UNCHANGED tokVars
    /\ UNCHANGED planVars
    /\ UNCHANGED autoVars
    /\ UNCHANGED execVars
    /\ UNCHANGED cmdVars
    /\ UNCHANGED reserveVars
    /\ UNCHANGED offPeakVars
    /\ UNCHANGED timedVars

RouteNext ==
    \/ PostAutoStart
    \/ PostAutoStop
    \/ \E i \in DOMAIN coordinators, ok \in BOOLEAN : RouteCycleDone(i, ok)
    \/ \E i \in DOMAIN coordinators : RouteTimerFire(i)

(* ============== storage recommendation and its execution =============== *)
(* The reserve floor is an option of the caller; the storage level is a     *)
(* percentage. One recommendation is computed and then handed to            *)
(* setBackupReserve, as executeChargingPlan does with a plan's storage      *)
(* actions.                                                                 *)
ReserveLevels == {0, 18, 20, 50, 89, 96, 100}

ReserveFloors == {0, 20, 50, 90, 91, 95, 100}

ReserveGridValues == {-500, 0, 500}

NoReserveCall == [powerwallLevel |-> 0, reserve |-> 0, gridPower |-> 0]

ReserveInit ==
    /\ reserveCall = NoReserveCall
    /\ reserveActions = <<>>
    /\ reservePc = "idle"
    /\ reserveSent = <<>>

(* createOptimalChargingPlan: the powerwallActions of the plan *)
RecommendReserve(powerwallLevel, reserve, gridPower) ==
    /\ reservePc = "idle"
    /\ reserveCall' = [powerwallLevel |-> powerwallLevel, reserve |-> reserve,
                       gridPower |-> gridPower]
    /\ reserveActions' = PowerwallActionsFor(powerwallLevel, reserve, gridPower)
    /\ reservePc' = "planned"
    /\ UNCHANGED reserveSent
    /\ UNCHANGED loopVars
    /\ UNCHANGED dispVars
    /\ UNCHANGED tokVars
    /\ UNCHANGED planVars
    /\ UNCHANGED autoVars
    /\ UNCHANGED execVars
    /\ UNCHANGED cmdVars
    /\ UNCHANGED routeVars
    /\ UNCHANGED offPeakVars
    /\ UNCHANGED timedVars

RECURSIVE ReserveResults(_)
(* executeChargingPlan over powerwallActions: setBackupReserve throws on an *)
(* argument that fails its range check, else the request is posted.         *)
ReserveResults(actions) ==
    IF actions = <<>> THEN <<>>
    ELSE <<[percent |-> Head(actions).recommendedReserve,
            result |-> IF ArgInRange([method |-> "set_backup_reserve",
                                      arg |-> Head(actions).recommendedReserve])
                       THEN "posted" ELSE "rangeError"]>>
         \o ReserveResults(Tail(actions))

ExecuteReserve ==
    /\ reservePc = "planned"
    /\ reserveSent' = ReserveResults(reserveActions)
    /\ reservePc' = "executed"
    /\ UNCHANGED <<reserveCall, reserveActions>>
    /\ UNCHANGED loopVars
    /\ UNCHANGED dispVars
    /\ UNCHANGED tokVars
    /\ UNCHANGED planVars
    /\ UNCHANGED autoVars
    /\ UNCHANGED execVars
    /\ UNCHANGED cmdVars
    /\ UNCHANGED routeVars
    /\ UNCHANGED offPeakVars
    /\ UNCHANGED timedVars

ReserveDropped ==
    /\ reservePc = "executed"
    /\ reserveCall' = NoReserveCall
    /\ reserveActions' = <<>>
    /\ reservePc' = "idle"
    /\ reserveSent' = <<>>
    /\ UNCHANGED loopVars
    /\ UNCHANGED dispVars
    /\ UNCHANGED tokVars
    /\ UNCHANGED planVars
    /\ UNCHANGED autoVars
    /\ UNCHANGED execVars
    /\ UNCHANGED cmdVars
    /\ UNCHANGED routeVars
    /\ UNCHANGED offPeakVars
    /\ UNCHANGED timedVars

ReserveNext ==
    \/ \E powerwallLevel \in ReserveLevels, reserve \in ReserveFloors,
          gridPower \in ReserveGridValues :
              RecommendReserve(powerwallLevel, reserve, gridPower)
    \/ ExecuteReserve
    \/ ReserveDropped

(* ======================== calculateOffPeakTime ========================= *)
(* Time values are milliseconds since 00:00 UTC of day 0. A time zone       *)
(* gives local time = UTC + offset; in two of the zones the offset changes  *)
(* once, at 02:00 local time of day 2 (clocks set back / set forward by     *)
(* one hour), as Date's local-time methods see it.                          *)
offPeakHour == 23

Hours(h) == h * 3600000

Days(d) == d * 86400000

TimeZones == {"fixed", "fallBack", "springForward"}

(* the UTC instant at which the offset of a zone changes *)
Transition(zone) ==
    CASE zone = "fallBack" -> Days(2)
      [] zone = "springForward" -> Days(2) + Hours(1)
      [] OTHER -> Days(4)

(* local time minus UTC at the UTC instant t *)
Offset(zone, t) ==
    CASE zone = "fallBack" -> IF t < Transition(zone) THEN Hours(2) ELSE Hours(1)
      [] zone = "springForward" -> IF t < Transition(zone) THEN Hours(1) ELSE Hours(2)
      [] OTHER -> Hours(1)

LocalTime(zone, t) == t + Offset(zone, t)

(* the time value of a local time: the earliest instant showing it *)
UTC(zone, local) ==
    LET candidates == {u \in {local - Hours(2), local - Hours(1)} :
                          LocalTime(zone, u) = local}
    IN CHOOSE u \in candidates : \A w \in candidates : u <= w

GetHours(zone, t) == (LocalTime(zone, t) \div Hours(1)) % 24

TimeWithinDay(local) == local % Days(1)

(* date.setDate(date.getDate() + 1): same local clock time, next local day *)
SetDateNextDay(zone, t) == UTC(zone, LocalTime(zone, t) + Days(1))

(* date.setHours(h, 0, 0, 0) *)
SetHours(zone, t, h) ==
    UTC(zone, LocalTime(zone, t) - TimeWithinDay(LocalTime(zone, t)) + Hours(h))

RollsOverAfterOffPeak(zone, nowMs) == GetHours(zone, nowMs) > offPeakHour

(* if (now.getHours() >= offPeakHour) *)
RollsOver(zone, nowMs) == GetHours(zone, nowMs) >= offPeakHour

(* calculateOffPeakTime: seconds since the epoch *)
OffPeakTime(zone, nowMs) ==
    LET rolled == IF RollsOver(zone, nowMs) THEN SetDateNextDay(zone, nowMs) ELSE nowMs
    IN SetHours(zone, rolled, offPeakHour) \div 1000

(* the instants at which the function is called *)
Instants ==
    {Days(d) + Hours(h) + ms :
        d \in {0, 1, 2}, h \in {0, 12, 20, 21, 22, 23},
        ms \in {0, 500, 1800000, 3599999}}

NoOffPeakCall == [zone |-> "fixed", now |-> 0]

OffPeakInit ==
    /\ offPeakCall = NoOffPeakCall
    /\ offPeakTime = 0
    /\ offPeakPc = "idle"

CalculateOffPeakTime(zone, nowMs) ==
    /\ offPeakPc = "idle"
    /\ offPeakCall' = [zone |-> zone, now |-> nowMs]
    /\ offPeakTime' = OffPeakTime(zone, nowMs)
    /\ offPeakPc' = "returned"
    /\ UNCHANGED loopVars
    /\ UNCHANGED dispVars
    /\ UNCHANGED tokVars
    /\ UNCHANGED planVars
    /\ UNCHANGED autoVars
    /\ UNCHANGED execVars
    /\ UNCHANGED cmdVars
    /\ UNCHANGED routeVars
    /\ UNCHANGED reserveVars
    /\ UNCHANGED timedVars

(* the caller has used the timestamp; the next call starts from nothing *)
OffPeakDropped ==
    /\ offPeakPc = "returned"
    /\ offPeakCall' = NoOffPeakCall
    /\ offPeakTime' = 0
    /\ offPeakPc' = "idle"
    /\ UNCHANGED loopVars
    /\ UNCHANGED dispVars
    /\ UNCHANGED tokVars
    /\ UNCHANGED planVars
    /\ UNCHANGED autoVars
    /\ UNCHANGED execVars
    /\ UNCHANGED cmdVars
    /\ UNCHANGED routeVars
    /\ UNCHANGED reserveVars
    /\ UNCHANGED timedVars

OffPeakCallInstants == IF offPeakPc = "idle" THEN Instants ELSE {}

OffPeakNext ==
    \/ \E zone \in TimeZones, nowMs \in OffPeakCallInstants : CalculateOffPeakTime(zone, nowMs)
    \/ OffPeakDropped

(* ================= one coordination loop in real time ================== *)
(* The chain of cycles of one startAutomaticCoordination call, with the     *)
(* times (ms) at which each cycle began and ended and the time at which the *)
(* pending setTimeout is due (-1: no timer pending, cycle not ended).       *)
MaxTimedCycles == 3

MaxLoopClock == 300000

LoopTickMs == 60000

IntervalMinutes == {1, 2}

IntervalMs(intervalMinutes) == intervalMinutes * 60 * 1000

TimedInit ==
    /\ timedLoop = [started |-> FALSE, isActive |-> FALSE, autoExecute |-> FALSE,
                    intervalMinutes |-> 0]
    /\ timedCycles = <<>>
    /\ timer = -1
    /\ loopClock = 0

Running == {i \in DOMAIN timedCycles : timedCycles[i].ended = -1}

(* coordinationLoop is entered: a cycle begins now *)
BeginCycle == Append(timedCycles, [began |-> loopClock, ended |-> -1, pc |-> "planning"])

TimerWhenCycleBeginsFixedRate == loopClock + IntervalMs(timedLoop.intervalMinutes)

(* entering coordinationLoop arms no timer *)
TimerWhenCycleBegins == -1

(* startAutomaticCoordination on an idle coordinator, coordinationLoop() *)
TimedStart(autoExecute, intervalMinutes) ==
    /\ ~timedLoop.started
    /\ timedLoop' = [started |-> TRUE, isActive |-> TRUE, autoExecute |-> autoExecute,
                     intervalMinutes |-> intervalMinutes]
    /\ timedCycles' = BeginCycle
    /\ timer' = -1
    /\ UNCHANGED loopClock
    /\ UNCHANGED loopVars
    /\ UNCHANGED dispVars
    /\ UNCHANGED tokVars
    /\ UNCHANGED planVars
    /\ UNCHANGED autoVars
    /\ UNCHANGED execVars
    /\ UNCHANGED cmdVars
    /\ UNCHANGED routeVars
    /\ UNCHANGED reserveVars
    /\ UNCHANGED offPeakVars

(* after the try/catch: if (this.isActive) setTimeout(coordinationLoop, ...) *)
EndCycle(i) ==
    /\ timedCycles' = [timedCycles EXCEPT ![i].ended = loopClock, ![i].pc = "done"]
    /\ timer' = IF timedLoop.isActive
                THEN loopClock + IntervalMs(timedLoop.intervalMinutes)
                ELSE timer

(* await createOptimalChargingPlan returns or throws *)
TimedPlanDone(i, ok) ==
    /\ i \in Running
    /\ timedCycles[i].pc = "planning"
    /\ IF ok /\ timedLoop.autoExecute
       THEN /\ timedCycles' = [timedCycles EXCEPT ![i].pc = "executing"]
            /\ UNCHANGED timer
       ELSE EndCycle(i)
    /\ UNCHANGED <<timedLoop, loopClock>>
    /\ UNCHANGED loopVars
    /\ UNCHANGED dispVars
    /\ UNCHANGED tokVars
    /\ UNCHANGED planVars
    /\ UNCHANGED autoVars
    /\ UNCHANGED execVars
    /\ UNCHANGED cmdVars
    /\ UNCHANGED routeVars
    /\ UNCHANGED reserveVars
    /\ UNCHANGED offPeakVars

(* await executeChargingPlan returns or throws *)
TimedExecDone(i, ok) ==
    /\ i \in Running
    /\ timedCycles[i].pc = "executing"
    /\ EndCycle(i)
    /\ UNCHANGED <<timedLoop, loopClock>>
    /\ UNCHANGED loopVars
    /\ UNCHANGED dispVars
    /\ UNCHANGED tokVars
    /\ UNCHANGED planVars
    /\ UNCHANGED autoVars
    /\ UNCHANGED execVars
    /\ UNCHANGED cmdVars
    /\ UNCHANGED routeVars
    /\ UNCHANGED reserveVars
    /\ UNCHANGED offPeakVars

(* the timer fires, not before it is due: coordinationLoop runs *)
TimedTimerFire ==
    /\ timer # -1
    /\ loopClock >= timer
    /\ IF ~timedLoop.isActive
       THEN /\ timer' = -1
            /\ UNCHANGED timedCycles
       ELSE /\ Len(timedCycles) < MaxTimedCycles
            /\ timedCycles' = BeginCycle
            /\ timer' = TimerWhenCycleBegins
    /\ UNCHANGED <<timedLoop, loopClock>>
    /\ UNCHANGED loopVars
    /\ UNCHANGED dispVars
    /\ UNCHANGED tokVars
    /\ UNCHANGED planVars
    /\ UNCHANGED autoVars
    /\ UNCHANGED execVars
    /\ UNCHANGED cmdVars
    /\ UNCHANGED routeVars
    /\ UNCHANGED reserveVars
    /\ UNCHANGED offPeakVars

(* stopAutomaticCoordination *)
TimedStop ==
    /\ timedLoop.isActive
    /\ timedLoop' = [timedLoop EXCEPT !.isActive = FALSE]
    /\ UNCHANGED <<timedCycles, timer, loopClock>>
    /\ UNCHANGED loopVars
    /\ UNCHANGED dispVars
    /\ UNCHANGED tokVars
    /\ UNCHANGED planVars
    /\ UNCHANGED autoVars
    /\ UNCHANGED execVars
    /\ UNCHANGED cmdVars
    /\ UNCHANGED routeVars
    /\ UNCHANGED reserveVars
    /\ UNCHANGED offPeakVars

(* time passes *)
TimedTick ==
    /\ timedLoop.started
    /\ loopClock + LoopTickMs <= MaxLoopClock
    /\ loopClock' = loopClock + LoopTickMs
    /\ UNCHANGED <<timedLoop, timedCycles, timer>>
    /\ UNCHANGED loopVars
    /\ UNCHANGED dispVars
    /\ UNCHANGED tokVars
    /\ UNCHANGED planVars
    /\ UNCHANGED autoVars
    /\ UNCHANGED execVars
    /\ UNCHANGED cmdVars
    /\ UNCHANGED routeVars
    /\ UNCHANGED reserveVars
    /\ UNCHANGED offPeakVars

TimedNext ==
    \/ \E autoExecute \in BOOLEAN, intervalMinutes \in IntervalMinutes :
          TimedStart(autoExecute, intervalMinutes)
    \/ \E i \in DOMAIN timedCycles, ok \in BOOLEAN : TimedPlanDone(i, ok)
    \/ \E i \in DOMAIN timedCycles, ok \in BOOLEAN : TimedExecDone(i, ok)
    \/ TimedTimerFire
    \/ TimedStop
    \/ TimedTick

Init == LoopInit /\ DispInit /\ TokInit /\ PlanInit /\ AutoInit /\ ExecInit /\ CmdInit /\ RouteInit /\ ReserveInit /\ OffPeakInit /\ TimedInit

(* The loops followed to their next cycle: the first MaxLiveLoops started, *)
(* over the first MaxLiveOps calls of start and stop.                      *)
MaxLiveLoops == 2

MaxLiveOps == 3

(* The step a loop is waiting for: its awaited plan or execution returns *)
(* or throws, or its timer fires (its pc enables at most one of them).   *)
LoopStep(l) ==
    /\ l \in LoopIds
    /\ \/ \E ok \in BOOLEAN : PlanDone(l, ok)
       \/ \E ok \in BOOLEAN : ExecDone(l, ok)
       \/ LoopTimerFire(l)

(* every awaited plan or execution returns or throws, every timer fires *)
LoopFairness == \A l \in 1..MaxLiveLoops : WF_vars(LoopStep(l))

SpecLoop == Init /\ [][LoopNext]_vars

(* startAutomaticCoordination while fewer than MaxLiveLoops loops exist or *)
(* while the coordinator is active (the call then only throws)             *)
LiveStart(autoExecute) ==
    /\ Len(callLog) < MaxLiveOps
    /\ isActive \/ Len(loops) < MaxLiveLoops
    /\ StartAutomaticCoordination(autoExecute)

LiveStop ==
    /\ Len(callLog) < MaxLiveOps
    /\ StopAutomaticCoordination

LoopLiveNext ==
    \/ \E a \in BOOLEAN : LiveStart(a)
    \/ LiveStop
    \/ \E l \in LoopIds, ok \in BOOLEAN : PlanDone(l, ok)
    \/ \E l \in LoopIds, ok \in BOOLEAN : ExecDone(l, ok)
    \/ \E l \in LoopIds : LoopTimerFire(l)

SpecLoopLive == Init /\ [][LoopLiveNext]_vars /\ LoopFairness

SpecDispatch == Init /\ [][DispNext]_vars

SpecDispatchLive == Init /\ [][DispLiveNext]_vars /\ DispFairness

SpecToken == Init /\ [][TokNext]_vars

SpecPlan == Init /\ [][PlanNext]_vars

SpecAuto == Init /\ [][AutoNext]_vars

SpecExec == Init /\ [][ExecNext]_vars

SpecCommand == Init /\ [][CmdNext]_vars

SpecRoutes == Init /\ [][RouteNext]_vars

SpecReserve == Init /\ [][ReserveNext]_vars

SpecOffPeak == Init /\ [][OffPeakNext]_vars

SpecTimedLoop == Init /\ [][TimedNext]_vars

(* ======================= claims: coordination loop ====================== *)

Called(op) ==
    /\ Len(callLog') = Len(callLog) + 1
    /\ callLog'[Len(callLog')].op = op

LastResult == callLog'[Len(callLog')].result

Alive(l) == loops[l].pc # "dead"

(* C1: at most one coordination loop is alive: never two chains of cycles   *)
(* that are running or scheduled under the current activation.              *)
C1_AtMostOneLoopAlive ==
    Cardinality({l \in LoopIds : Alive(l) /\ loops[l].epoch = NStartsOK}) <= 1

(* C2: a start while isActive fails with the already-active error, leaves   *)
(* the flag true and starts no cycle; a start on an idle coordinator sets   *)
(* the flag and begins one loop, so of two starts on an idle coordinator    *)
(* exactly one succeeds (successful starts never outnumber successful stops *)
(* by more than one).                                                       *)
NStopsOK == Cardinality({i \in DOMAIN callLog :
                callLog[i].op = "stop" /\ callLog[i].result = "ok"})

C2_StartStep ==
    Called("start") =>
        IF isActive
        THEN LastResult = "AlreadyActiveError" /\ isActive' /\ loops' = loops
        ELSE /\ LastResult = "ok" /\ isActive'
             /\ Len(loops') = Len(loops) + 1
             /\ \A l \in LoopIds : loops'[l] = loops[l]

C2_StartWhileActiveFails ==
    /\ [](NStartsOK <= NStopsOK + 1)
    /\ [][C2_StartStep]_vars

C2_Witness ==
    /\ Len(callLog) >= 2
    /\ callLog[1] = [op |-> "start", result |-> "ok"]
    /\ callLog[2] = [op |-> "start", result |-> "AlreadyActiveError"]
    /\ isActive
    /\ Len(loops) = 1

(* C3: a stop while the flag is false fails with the not-active error and   *)
(* leaves the flag false; a stop while it is true succeeds and clears it;   *)
(* isActive is true exactly between a successful start and the next         *)
(* successful stop.                                                         *)
SuccessfulCalls == SelectSeq(callLog, LAMBDA e : e.result = "ok")

C3_StopStep ==
    Called("stop") =>
        IF isActive
        THEN LastResult = "ok" /\ ~isActive'
        ELSE LastResult = "NotActiveError" /\ ~isActive' /\ loops' = loops

C3_StopContract ==
    /\ [](isActive <=> (/\ SuccessfulCalls # <<>>
                        /\ SuccessfulCalls[Len(SuccessfulCalls)].op = "start"))
    /\ [][C3_StopStep]_vars

C3_Witness ==
    /\ Len(callLog) >= 3
    /\ callLog[1] = [op |-> "start", result |-> "ok"]
    /\ callLog[2] = [op |-> "stop", result |-> "ok"]
    /\ callLog[3] = [op |-> "stop", result |-> "NotActiveError"]
    /\ ~isActive

(* C4: after a successful stop, a cycle in progress runs to completion and  *)
(* no further cycle of the stopped loop is scheduled or begun: a stopped    *)
(* loop never re-arms its timer and its pending timer never starts a cycle. *)
C4_StoppedLoopStep ==
    \A l \in LoopIds :
        loops[l].stopped =>
            /\ (loops[l].pc = "planning" => loops'[l].pc \in {"planning", "executing", "dead"})
            /\ (loops[l].pc = "executing" => loops'[l].pc \in {"executing", "dead"})
            /\ (loops[l].pc = "timer" => loops'[l].pc \in {"timer", "dead"})

C4_StopIsCooperative == [][C4_StoppedLoopStep]_vars

(* C5: a cycle that fails (planning or execution throws, the first cycle    *)
(* included) neither ends the loop nor reaches the caller of start: the     *)
(* timer is armed if and only if the flag is still true, as after success.  *)
CycleEnds(l) == loops[l].pc \in RunningPcs /\ loops'[l].pc \notin RunningPcs

C5_FailedCycleStep ==
    \A l \in LoopIds :
        (CycleEnds(l) /\ loops'[l].outcome \in {"planError", "execError"}) =>
            /\ loops'[l].pc = (IF isActive THEN "timer" ELSE "dead")
            /\ isActive' = isActive
            /\ callLog' = callLog

C5_FailedCycleKeepsLoop == [][C5_FailedCycleStep]_vars

C5_Witness ==
    \E l \in LoopIds :
        /\ loops[l].outcome = "planError"
        /\ loops[l].cycles = 2
        /\ loops[l].pc = "planning"
        /\ ~loops[l].stopped

(* C30: after a successful start with autoExecute = false, no cycle begun   *)
(* under that start executes a plan (executeChargingPlan is the only place  *)
(* that sends vehicle commands and reserve changes): a cycle begun since    *)
(* the latest successful start executes only if that start asked for it.    *)
C30_ReadOnlyUnlessAutoExecute ==
    \A l \in LoopIds :
        (loops[l].pc = "executing" /\ loops[l].epoch = NStartsOK) =>
            loops[Len(loops)].autoExecute

(* C33: a successful start begins the first cycle in the same step, with   *)
(* no interval wait; and a loop that has not been stopped begins a new      *)
(* cycle after every cycle it completes, whether that cycle succeeded or    *)
(* failed, provided every awaited call returns or throws: from its n-th     *)
(* cycle it reaches its (n+1)-th unless a stop intervenes.                  *)
C33_FirstCycleStep ==
    (Called("start") /\ LastResult = "ok") =>
        /\ Len(loops') = Len(loops) + 1
        /\ loops'[Len(loops')].pc = "planning"
        /\ loops'[Len(loops')].cycles = 1

C33_CyclesKeepComing ==
    /\ [][C33_FirstCycleStep]_vars
    /\ \A l \in 1..MaxLiveLoops : \A n \in 1..(MaxCycles - 1) :
           (l \in LoopIds /\ loops[l].cycles = n /\ ~loops[l].stopped) ~>
               (l \in LoopIds /\ (loops[l].cycles = n + 1 \/ loops[l].stopped))

C33_Witness ==
    \E l \in LoopIds :
        /\ ~loops[l].stopped
        /\ loops[l].cycles = MaxCycles
        /\ loops[l].outcome = "execError"
        /\ loops[l].pc = "planning"

(* ======================= claims: request dispatch ======================= *)

LogIdx == DOMAIN dispatchLog

Dispatched(c) == \E i \in LogIdx : dispatchLog[i].call = c

Queued(c) == \E d \in Clients : \E i \in DOMAIN requestQueue[d] : requestQueue[d][i] = c

InFlight(c) == \E w \in WorkerRecords : w.pc = "awaitResponse" /\ w.call = c

(* C6: all outbound calls of one coordinator pass through one queue with    *)
(* one worker: at most one worker runs for the coordinator and any two of   *)
(* its dispatches start at least requestInterval apart (so never at the     *)
(* same instant).                                                           *)
C6_OneQueueForCoordinator ==
    /\ Cardinality(WorkerRecords) <= 1
    /\ \A i, j \in LogIdx :
           i < j => dispatchLog[j].at - dispatchLog[i].at >= requestInterval

(* C7: for one dispatcher, the start times of any two consecutive           *)
(* dispatches are at least requestInterval apart.                           *)
C7_MinDispatchGap ==
    \A i, j \in LogIdx :
        (i < j /\ dispatchLog[i].client = dispatchLog[j].client) =>
            dispatchLog[j].at - dispatchLog[i].at >= requestInterval

(* C8: for one dispatcher at most one drain worker is past the guard of     *)
(* processQueue at any time.                                                *)
C8_AtMostOneWorker == \A d \in Clients : Cardinality(workers[d]) <= 1

C8_Witness ==
    \E d \in Clients : \E w \in workers[d] :
        /\ w.pc = "awaitInterval"
        /\ Len(requestQueue[d]) >= 2
        /\ \E c1, c2 \in CallIds :
              /\ Queued(c1) /\ calls[c1].client = d /\ calls[c1].found = "awaitResponse"
              /\ Queued(c2) /\ calls[c2].client = d /\ calls[c2].found = "awaitInterval"

(* C9: for one dispatcher, calls are dispatched in submission order: two    *)
(* dispatched calls start in the order of their submission, and when a call *)
(* is dispatched every call submitted to that dispatcher before it has been *)
(* dispatched already, unless clearQueue removed it.                        *)
C9_FifoDispatch ==
    \A j \in LogIdx :
        /\ \A i \in LogIdx :
               (i < j /\ dispatchLog[i].client = dispatchLog[j].client) =>
                   dispatchLog[i].call < dispatchLog[j].call
        /\ \A a \in CallIds :
               (a < dispatchLog[j].call /\ calls[a].client = dispatchLog[j].client) =>
                   \/ calls[a].cleared
                   \/ \E i \in LogIdx : i < j /\ dispatchLog[i].call = a

C9_Witness ==
    \E a, b \in CallIds :
        /\ a < b
        /\ calls[a].client = calls[b].client
        /\ calls[a].behind # 0
        /\ calls[b].behind = calls[a].behind
        /\ Dispatched(a)
        /\ Queued(b)

(* C10: no submitted call is dropped: every call is settled exactly once,   *)
(* or is still queued or in flight and so is yet to be settled.             *)
C10_NoCallDropped ==
    \A c \in CallIds :
        /\ calls[c].settles <= 1
        /\ (calls[c].settles = 1 \/ Queued(c) \/ InFlight(c))

(* C11: a failed call is delivered to its own handle only and is never      *)
(* dispatched again (each call causes at most one remote request); the      *)
(* worker goes on with the calls still queued, which keep their own         *)
(* outcomes.                                                                *)
C11_FailureStep ==
    \A c \in CallIds :
        (calls[c].outcome = "pending" /\ calls'[c].outcome = "rejected") =>
            /\ \A o \in CallIds \ {c} : calls'[o] = calls[o]
            /\ requestQueue' = requestQueue
            /\ requestQueue[calls[c].client] # <<>> =>
                   /\ isProcessingQueue'[calls[c].client]
                   /\ \E w \in workers'[calls[c].client] : w.pc = "awaitInterval"

C11_FailureIsLocal ==
    /\ [](\A c \in CallIds :
             Cardinality({i \in LogIdx : dispatchLog[i].call = c}) <= 1)
    /\ [][C11_FailureStep]_vars

C11_Witness ==
    \E a, b \in CallIds :
        /\ calls[a].client = calls[b].client
        /\ calls[b].behind = a
        /\ calls[a].outcome = "rejected"
        /\ calls[b].outcome = "resolved"

(* C32: the worker is never held up by a response for longer than          *)
(* requestInterval while calls are queued behind it: whenever a call is in  *)
(* flight and another call waits in the same queue, no more than            *)
(* requestInterval has passed since the dispatch of the call in flight.     *)
C32_SlowCallDoesNotDelayQueue ==
    \A d \in Clients : \A w \in workers[d] :
        (w.pc = "awaitResponse" /\ Len(requestQueue[d]) > 0) =>
            now - w.at <= requestInterval

(* C36: the dispatcher never strands work: whenever a client's queue is    *)
(* non-empty its worker is running and isProcessingQueue is true, and       *)
(* isProcessingQueue is false whenever no worker is running; so, when every *)
(* remote call terminates, every queued call is eventually dispatched       *)
(* (unless clearQueue takes it out of the queue), also a call submitted     *)
(* just after the worker finished its last item.                            *)
C36_WorkerWhileQueued ==
    \A d \in Clients :
        /\ Len(requestQueue[d]) > 0 => (isProcessingQueue[d] /\ workers[d] # {})
        /\ workers[d] = {} => ~isProcessingQueue[d]

C36_NeverStrandsWork ==
    /\ []C36_WorkerWhileQueued
    /\ \A c \in 1..MaxLiveCalls :
           (c \in CallIds /\ Queued(c)) ~>
               (c \in CallIds /\ (Dispatched(c) \/ calls[c].cleared))

C36_Witness ==
    \E a, b, c \in CallIds :
        /\ a < b /\ b < c
        /\ calls[a].client = calls[b].client /\ calls[b].client = calls[c].client
        /\ calls[b].behind = a /\ calls[b].found = "awaitResponse"
        /\ calls[b].outcome # "pending"
        /\ calls[c].behind = 0 /\ calls[c].found = "idle"
        /\ Dispatched(c)

(* ======================== claims: token lifecycle ======================= *)

Invoked == Len(tokOps') = Len(tokOps) + 1

NewOp == tokOps'[Len(tokOps')]

Due(comp) == clock > tokens[comp].expiresAt - 60 * 1000

CredentialUntouched ==
    tokens' = tokens /\ authHeader' = authHeader /\ issued' = issued

(* C12: ensureValidToken on a credential that expires more than 60 s from   *)
(* now performs no refresh exchange and leaves the stored token and the     *)
(* Authorization header unchanged, however often it is repeated.            *)
C12_FreshStep ==
    Invoked =>
        LET comp == NewOp.comp
        IN (tokens[comp].set /\ tokens[comp].expiresAt > clock + 60 * 1000) =>
               /\ NewOp.pc = "queued"
               /\ CredentialUntouched

C12_NoRefreshWhenFresh == [][C12_FreshStep]_vars

C12_Witness ==
    \E i, j \in DOMAIN tokOps :
        /\ i < j
        /\ tokOps[i].comp = "vehicleAPI" /\ tokOps[j].comp = "vehicleAPI"
        /\ tokOps[i].pc = "sent" /\ tokOps[j].pc = "queued"
        /\ tokens["vehicleAPI"].refresh # 0
        /\ tokens["vehicleAPI"].expiresAt > clock + 60 * 1000
        /\ tokens["vehicleAPI"].access = 1
        /\ authHeader["vehicleAPI"] = 1
        /\ issued = 0

(* C13: in every component, when now > expires_at - 60 s and a refresh      *)
(* token is present, ensureValidToken performs a refresh exchange before    *)
(* the call; otherwise the credential is returned unchanged.                *)
C13_RefreshStep ==
    Invoked =>
        LET comp == NewOp.comp
        IN tokens[comp].set =>
               IF tokens[comp].refresh # 0 /\ Due(comp)
               THEN NewOp.pc = "refreshing"
               ELSE NewOp.pc = "queued" /\ CredentialUntouched

C13_RefreshWhenDue == [][C13_RefreshStep]_vars

(* C14: an expired credential without a refresh token makes                 *)
(* ensureValidToken neither fail nor refresh: the credential stays as it is *)
(* and the call is dispatched with the stale access token.                  *)
C14_StaleStep ==
    Invoked =>
        LET comp == NewOp.comp
        IN (tokens[comp].set /\ tokens[comp].refresh = 0 /\ Due(comp)) =>
               /\ NewOp.pc = "queued"
               /\ CredentialUntouched

C15_FailedRefreshStep ==
    \A i \in DOMAIN tokOps :
        /\ (tokOps[i].pc = "refreshing" /\ tokOps'[i].pc = "failed") =>
               tokens' = tokens /\ authHeader' = authHeader
        /\ tokOps[i].pc = "failed" => tokOps'[i] = tokOps[i]

C15_FailedRefreshKeepsCredential ==
    /\ [](\A i \in DOMAIN tokOps : tokOps[i].pc = "failed" => tokOps[i].sentWith = 0)
    /\ [][C15_FailedRefreshStep]_vars

C15_Witness ==
    \E i \in DOMAIN tokOps :
        /\ tokOps[i].pc = "failed"
        /\ tokOps[i].forToken = 1
        /\ tokens[tokOps[i].comp].access = 1
        /\ tokens[tokOps[i].comp].refresh = 1
        /\ authHeader[tokOps[i].comp] = 1

(* C16: concurrent operations on one component with an expired credential   *)
(* cause no redundant refresh: at most one refresh exchange of a component  *)
(* is in flight at a time.                                                  *)
C16_SingleRefreshInFlight ==
    \A comp \in Comps :
        Cardinality({i \in DOMAIN tokOps :
            tokOps[i].comp = comp /\ tokOps[i].pc = "refreshing"}) <= 1

(* C38: a coordinator operates on one credential: once its tokens are set, *)
(* the access token its vehicle API sends and the one its energy API sends  *)
(* are the same, also after refreshes.                                      *)
C38_OneCredentialPerCoordinator ==
    (tokens["vehicleAPI"].set /\ tokens["energyAPI"].set) =>
        /\ tokens["vehicleAPI"].access = tokens["energyAPI"].access
        /\ authHeader["vehicleAPI"] = authHeader["energyAPI"]

(* C39: within one component the Authorization header of its client always *)
(* carries the access token of the stored credential, in particular         *)
(* wherever a call is enqueued: after setTokens, after a successful and     *)
(* after a failed refresh, and after concurrent refreshes in any order.     *)
C39_HeaderMatchesCredential ==
    \A comp \in Comps :
        /\ tokens[comp].set => authHeader[comp] = tokens[comp].access
        /\ ~tokens[comp].set => authHeader[comp] = 0

C39_Witness ==
    /\ Len(tokOps) = 3
    /\ \A i \in 1..3 : tokOps[i].comp = "vehicleAPI" /\ tokOps[i].forToken = 1
    /\ tokOps[1].pc = "queued"
    /\ tokOps[2].pc = "failed"
    /\ tokOps[3].pc = "queued"
    /\ issued = 2
    /\ authHeader["vehicleAPI"] = tokens["vehicleAPI"].access
    /\ tokens["vehicleAPI"].access > 1

(* ======================== claims: charging plan ========================= *)

Entries == DOMAIN plan.vehicles

Starting == {k \in Entries : plan.vehicles[k].recommendedAction = "start_charging"}

Candidates == {k \in Entries : plan.vehicles[k].decided = "start_charging"}

Demoted == {k \in Candidates : plan.vehicles[k].recommendedAction = "queue_charging"}

Eligible(k) == plan.vehicles[k].chargingNeeded > 0 /\ plan.vehicles[k].isPluggedIn

C18_AdmissionKeepsTop ==
    planPc = "returned" =>
        LET e == plan.vehicles
            limit == planCall.maxSimultaneousCharging
        IN /\ Candidates = Starting \cup Demoted
           /\ Cardinality(Starting) =
                  IF Cardinality(Candidates) > limit THEN limit ELSE Cardinality(Candidates)
           /\ \A k \in Entries \ Candidates : e[k].recommendedAction = e[k].decided
           /\ \A k \in Starting, d \in Demoted :
                  /\ ~(e[d].priority = "high" /\ e[k].priority = "normal")
                  /\ e[d].priority = e[k].priority =>
                         e[d].chargingNeeded <= e[k].chargingNeeded

C18_Witness ==
    /\ planPc = "returned"
    /\ planCall.maxSimultaneousCharging = 2
    /\ Cardinality(Candidates) = 3
    /\ \E h, a, b \in Candidates :
           /\ plan.vehicles[h].priority = "high"
           /\ plan.vehicles[a].priority = "normal"
           /\ plan.vehicles[b].priority = "normal"
           /\ plan.vehicles[h].chargingNeeded < plan.vehicles[b].chargingNeeded
           /\ plan.vehicles[b].chargingNeeded < plan.vehicles[a].chargingNeeded
           /\ Starting = {h, a}
           /\ Demoted = {b}

Fetched == {id \in DOMAIN planCall.vehicles :
               planCall.vehicles[id].state = "online" /\ planCall.vehicles[id].fetch = "ok"}

C25_FetchFailureIsLocal ==
    planPc = "returned" =>
        /\ {plan.vehicles[k].vehicleId : k \in Entries} = Fetched
        /\ Len(plan.vehicles) = Cardinality(Fetched)
        /\ \A j, k \in Entries : j < k => plan.vehicles[j].vehicleId < plan.vehicles[k].vehicleId

C25_Witness ==
    /\ planPc = "returned"
    /\ Len(planCall.vehicles) = 3
    /\ planCall.vehicles[1].fetch = "ok"
    /\ planCall.vehicles[2].fetch = "fails"
    /\ planCall.vehicles[3].fetch = "ok"
    /\ Len(plan.vehicles) = 2
    /\ plan.vehicles[2].vehicleId = 3

(* C40: in every returned plan an entry whose action is not none belongs   *)
(* to a vehicle that is plugged in and below its target (chargingNeeded >   *)
(* 0); a vehicle that is not plugged in, or at or above its target, has     *)
(* action none, before and after admission control, and executing its       *)
(* entry calls no command method.                                           *)
InputOf(k) == planCall.vehicles[plan.vehicles[k].vehicleId]

C40_ActionsOnlyForEligible ==
    planPc = "returned" =>
        \A k \in Entries :
            LET e == plan.vehicles[k]
                wanted == InputOf(k).plugged /\ InputOf(k).level < e.targetCharge
            IN /\ e.chargingNeeded = e.targetCharge - InputOf(k).level
               /\ e.isPluggedIn = InputOf(k).plugged
               /\ e.recommendedAction # "none" => wanted
               /\ ~wanted => /\ e.recommendedAction = "none"
                             /\ e.decided = "none"
                             /\ MethodFor(e.recommendedAction) = "none"

C40_Witness ==
    /\ planPc = "returned"
    /\ planCall.powerwallLevel = 96
    /\ Len(plan.vehicles) = 3
    /\ InputOf(1).plugged /\ InputOf(1).level = 80
    /\ plan.vehicles[1].recommendedAction = "none"
    /\ InputOf(2).plugged /\ InputOf(2).level = 90
    /\ plan.vehicles[2].recommendedAction = "none"
    /\ ~InputOf(3).plugged /\ InputOf(3).level = 60
    /\ plan.vehicles[3].recommendedAction = "none"

(* ==================== claims: auto-executing loop ======================= *)

(* C21: across successive plan-and-execute cycles, the number of vehicles   *)
(* that have been sent a start command and not since a stop command never   *)
(* exceeds maxSimultaneousCharging.                                         *)
C21_ChargingWithinLimit ==
    autoOpts.started => Cardinality(charging) <= autoOpts.maxSimultaneousCharging

(* ====================== claims: plan execution ========================== *)

ExecItems == 1..(Len(execPlan.vehicles) + Len(execPlan.powerwallActions))

VehicleItems == 1..Len(execPlan.vehicles)

Recorded(list, i) == Cardinality({k \in DOMAIN list : list[k].item = i})

AttemptsOf(i) == {k \in DOMAIN attempts : attempts[k].item = i}

Actionable(i) ==
    execPlan.vehicles[i].recommendedAction \in
        {"start_charging", "delay_charging", "schedule_off_peak"}

C23_FailureDoesNotStopLaterItems ==
    execPc = "returned" =>
        \A i \in VehicleItems :
            Actionable(i) =>
                /\ Cardinality(AttemptsOf(i)) = 1
                /\ \A k \in AttemptsOf(i) :
                       (Recorded(results.failed, i) = 1) <=> (attempts[k].error # "none")

C23_Witness ==
    /\ execPc = "returned"
    /\ Len(execPlan.vehicles) = 3
    /\ \A i \in VehicleItems : Actionable(i)
    /\ Recorded(results.failed, 1) = 1
    /\ Recorded(results.executed, 2) = 1
    /\ Recorded(results.failed, 3) = 1

(* C24: a start command is issued only for start_charging, a stop command   *)
(* only for delay_charging, a scheduled-charge command only for             *)
(* schedule_off_peak; queue_charging and none cause no remote call and are  *)
(* recorded as skipped.                                                     *)
C24_CommandsMatchActions ==
    execPc \in {"running", "returned"} =>
        /\ \A k \in DOMAIN attempts :
               attempts[k].item \in VehicleItems =>
                   LET action == execPlan.vehicles[attempts[k].item].recommendedAction
                   IN /\ attempts[k].method \in
                             {"charging_start", "charging_stop", "scheduled_charging"}
                      /\ attempts[k].method = "charging_start" => action = "start_charging"
                      /\ attempts[k].method = "charging_stop" => action = "delay_charging"
                      /\ attempts[k].method = "scheduled_charging" => action = "schedule_off_peak"
        /\ \A i \in VehicleItems :
               (i < execPos /\ ~Actionable(i)) =>
                   /\ AttemptsOf(i) = {}
                   /\ Recorded(results.skipped, i) = 1

C24_Witness ==
    /\ execPc = "returned"
    /\ Len(execPlan.vehicles) = 3
    /\ execPlan.vehicles[1].recommendedAction = "queue_charging"
    /\ execPlan.vehicles[2].recommendedAction = "none"
    /\ execPlan.vehicles[3].recommendedAction = "start_charging"
    /\ Len(results.skipped) = 2
    /\ \E k \in AttemptsOf(3) : attempts[k].method = "charging_start" /\ attempts[k].dispatched
    /\ AttemptsOf(1) = {} /\ AttemptsOf(2) = {}

(* C27: a credential refresh failure or a missing signing key during        *)
(* executeChargingPlan is fatal for the operation: the call ends with one   *)
(* error for its caller and returns no result with the failure recorded per *)
(* item.                                                                    *)
C27_FatalErrorsPropagate ==
    execPc = "returned" =>
        \A k \in DOMAIN attempts : attempts[k].error \notin {"refresh", "signing"}

(* ====================== claims: vehicle commands ======================== *)

(* C26: without a private key every signed vehicle command (charging start, *)
(* charging stop, set charging amps, set charge limit) fails before         *)
(* anything is enqueued: its request is never in the queue, never           *)
(* dispatched, and the failed command is not taken up again.                *)
C26_NoKeyStep ==
    \A i \in DOMAIN cmds :
        cmds[i].pc = "failed" => (i \in DOMAIN cmds' /\ cmds'[i] = cmds[i])

C26_NoKeyNoCommand ==
    /\ [](~cmdApi.hasKey =>
             \A i \in DOMAIN cmds :
                 cmds[i].method \in
                     {"charging_start", "charging_stop", "set_charging_amps", "set_charge_limit"} =>
                     /\ cmds[i].pc = "failed"
                     /\ ~cmds[i].enqueued
                     /\ cmds[i].body = <<>>
                     /\ \A k \in DOMAIN cmdQueue : cmdQueue[k] # i)
    /\ [][C26_NoKeyStep]_vars

C26_Witness ==
    /\ cmdApi.constructed /\ ~cmdApi.hasKey
    /\ Len(cmds) = 2
    /\ cmds[1].method = "charging_start" /\ cmds[1].error = "signing"
    /\ cmds[2].method = "set_charge_limit" /\ cmds[2].arg = 50 /\ cmds[2].error = "signing"
    /\ cmdQueue = <<>>

(* C28: for every envelope the signer builds, the fields the signature      *)
(* covers are exactly the data fields of the request body (command,         *)
(* parameters, domain, timestamp, nonce), with the same values.             *)
C28_SignatureCoversBody ==
    \A i \in DOMAIN cmds :
        (cmds[i].enqueued /\ "signature" \in DOMAIN cmds[i].body) =>
            LET body == cmds[i].body
                covered == body.signature.signed
            IN /\ DOMAIN covered = DOMAIN body \ {"signature", "algorithm"}
               /\ \A f \in DOMAIN covered \cap DOMAIN body : covered[f] = body[f]

RangeChecked == {"set_charging_amps", "set_charge_limit", "set_backup_reserve"}

DocumentedRange(method) ==
    CASE method = "set_charging_amps" -> 5..48
      [] method = "set_charge_limit" -> 50..100
      [] method = "set_backup_reserve" -> 0..100

Enqueued == Len(cmdQueue) + Len(energyQueue)

EnqueuedNext == Len(cmdQueue') + Len(energyQueue')

(* C31: a call of setChargingAmps, setChargeLimit or setBackupReserve with  *)
(* an argument outside its range (5..48, 50..100, 0..100) fails and puts    *)
(* nothing in a request queue; with an argument inside the range, and the   *)
(* credential and (for the signed commands) the signing key usable, it      *)
(* enqueues exactly one request. No queued request carries an out-of-range  *)
(* argument, and no call is queued twice.                                   *)
C31_RangeStep ==
    (Len(cmds') = Len(cmds) + 1 /\ cmds'[Len(cmds')].method \in RangeChecked) =>
        LET new == cmds'[Len(cmds')]
        IN IF new.arg \notin DocumentedRange(new.method)
           THEN /\ new.pc = "failed"
                /\ new.error \in {"range", "refresh"}
                /\ EnqueuedNext = Enqueued
           ELSE IF \/ new.error = "refresh"
                   \/ (new.method \in SignedCommands /\ ~cmdApi.hasKey)
           THEN EnqueuedNext = Enqueued
           ELSE /\ new.error = "none"
                /\ EnqueuedNext = Enqueued + 1
                /\ Len(cmds') \in
                       {q[Len(q)] : q \in {cmdQueue', energyQueue'} \ {<<>>}}

C31_QueuedInRange ==
    /\ \A k \in DOMAIN cmdQueue :
           /\ ArgInRange(cmds[cmdQueue[k]]) /\ cmds[cmdQueue[k]].method # "set_backup_reserve"
           /\ \A j \in DOMAIN cmdQueue : cmdQueue[j] = cmdQueue[k] => j = k
    /\ \A k \in DOMAIN energyQueue :
           /\ cmds[energyQueue[k]].method = "set_backup_reserve"
           /\ cmds[energyQueue[k]].arg \in DocumentedRange("set_backup_reserve")
           /\ \A j \in DOMAIN energyQueue : energyQueue[j] = energyQueue[k] => j = k

C31_OutOfRangeNeverDispatched ==
    /\ []C31_QueuedInRange
    /\ [][C31_RangeStep]_vars

C31_Witness ==
    /\ cmdApi.hasKey
    /\ Len(cmds) = 2
    /\ cmds[1].method = "set_backup_reserve" /\ cmds[1].arg = 101
    /\ cmds[1].error = "range" /\ ~cmds[1].enqueued
    /\ cmds[2].method = "set_charging_amps" /\ cmds[2].arg = 48
    /\ cmds[2].enqueued
    /\ cmdQueue = <<2>> /\ energyQueue = <<>>

(* ========================= claims: HTTP routes ========================== *)

StartedBefore(k) ==
    {i \in 1..(k - 1) : httpLog[i] = RouteResponse("auto/start", 200)}

StopRequests == {k \in DOMAIN httpLog : httpLog[k].route = "auto/stop"}

BeginsCycle(i) == coordinators'[i].cycles > coordinators[i].cycles

(* C29: coordination started by POST /charging/auto/start can be stopped by *)
(* a later POST /charging/auto/stop: the stop request is answered with      *)
(* success, and after it the loop of the earlier start begins no cycle.     *)
C29_StopSucceeds ==
    \A k \in StopRequests : StartedBefore(k) # {} => httpLog[k].status = 200

C29_NoCycleAfterStop ==
    \A k \in StopRequests : \A i \in StartedBefore(k) : ~BeginsCycle(i)

C29_StopRequestStopsLoop ==
    /\ []C29_StopSucceeds
    /\ [][C29_NoCycleAfterStop]_vars
(* ==================== claims: storage recommendation ==================== *)

(* C34: a plan holds a storage action exactly when the storage level is     *)
(* below the reserve floor and grid power is negative; it then holds        *)
(* exactly one, recommending min(floor + 10, 100), which is at most 100 and *)
(* passes the 0..100 check of setBackupReserve when executed.               *)
C34_StorageActionRule ==
    /\ reservePc # "idle" =>
          IF reserveCall.powerwallLevel < reserveCall.reserve /\ reserveCall.gridPower < 0
          THEN /\ Len(reserveActions) = 1
               /\ reserveActions[1].action = "increase_backup_reserve"
               /\ reserveActions[1].recommendedReserve =
                      (IF reserveCall.reserve + 10 <= 100
                       THEN reserveCall.reserve + 10 ELSE 100)
               /\ reserveActions[1].recommendedReserve <= 100
               /\ reservePc = "executed" =>
                      reserveSent = <<[percent |-> reserveActions[1].recommendedReserve,
                                       result |-> "posted"]>>
          ELSE reserveActions = <<>> /\ reserveSent = <<>>

C34_Witness ==
    /\ reservePc = "executed"
    /\ reserveCall = [powerwallLevel |-> 89, reserve |-> 95, gridPower |-> -500]
    /\ reserveSent = <<[percent |-> 100, result |-> "posted"]>>
(* ===================== claims: calculateOffPeakTime ===================== *)

OffPeakMs == offPeakTime * 1000

CallLocal == LocalTime(offPeakCall.zone, offPeakCall.now)

ResultLocal == LocalTime(offPeakCall.zone, OffPeakMs)

LocalDay(local) == local \div Days(1)

(* the result is 23:00:00.000 local time, strictly after now, on the local  *)
(* day of the call when its hour is before 23 and on the next local day     *)
(* when its hour is 23                                                      *)
IsNextOffPeak ==
    /\ OffPeakMs > offPeakCall.now
    /\ TimeWithinDay(ResultLocal) = Hours(offPeakHour)
    /\ LocalDay(ResultLocal) =
           LocalDay(CallLocal) +
               (IF GetHours(offPeakCall.zone, offPeakCall.now) = offPeakHour THEN 1 ELSE 0)

(* the amount by which local clocks were set back between now and the result *)
SetBack ==
    LET d == Offset(offPeakCall.zone, offPeakCall.now) - Offset(offPeakCall.zone, OffPeakMs)
    IN IF d > 0 THEN d ELSE 0

(* C35 as stated: for every current local time the result is the next       *)
(* 23:00:00 local time, strictly later than now and at most 24 h after now. *)
C35_NextOffPeakWithin24h ==
    offPeakPc = "returned" =>
        /\ IsNextOffPeak
        /\ OffPeakMs - offPeakCall.now <= Hours(24)

(* C35: for every current local time the result is the next 23:00:00 local  *)
(* time, strictly later than now, today's when the hour is before 23 and    *)
(* tomorrow's when it is 23; it is at most 24 h after now when the UTC      *)
(* offset of local time is the same at both instants, and at most 24 h plus *)
(* the set-back of the clocks otherwise.                                    *)
C35_NextOffPeakWithinOneLocalDay ==
    offPeakPc = "returned" =>
        /\ IsNextOffPeak
        /\ OffPeakMs - offPeakCall.now <= Hours(24) + SetBack

C35_Witness ==
    /\ offPeakPc = "returned"
    /\ offPeakCall = [zone |-> "fallBack", now |-> Days(1) + Hours(21) + 1800000]
    /\ GetHours(offPeakCall.zone, offPeakCall.now) = offPeakHour
    /\ OffPeakMs = Days(2) + Hours(22)
(* ==================== claims: one loop in real time ===================== *)

(* C37: within one loop, cycles never overlap: at most one cycle is in      *)
(* progress, no timer is pending while a cycle is in progress, and every    *)
(* cycle after the first begins at least intervalMinutes after the cycle    *)
(* before it ended, however long that cycle took.                           *)
C37_CyclesDoNotOverlap ==
    /\ Cardinality(Running) <= 1
    /\ Running # {} => timer = -1
    /\ \A i \in DOMAIN timedCycles :
           i > 1 =>
               /\ timedCycles[i - 1].ended # -1
               /\ timedCycles[i].began >=
                      timedCycles[i - 1].ended + IntervalMs(timedLoop.intervalMinutes)

C37_Witness ==
    /\ Len(timedCycles) >= 2
    /\ timedLoop.intervalMinutes = 1
    /\ timedCycles[1].ended - timedCycles[1].began > IntervalMs(1)
    /\ timedCycles[2].began = timedCycles[1].ended + IntervalMs(1)
    /\ timedCycles[2].pc = "executing"

====
